---------------------------- MODULE Spec2Model ----------------------------
(***************************************************************************)
(* A model of the pynusmv model frontend: the expression nodes of          *)
(* pynusmv/model.py (structural equality, hashing, precedence-aware        *)
(* rendering), the pyparsing grammar of pynusmv/parser.py and the module   *)
(* assembler ModuleMetaClass.                                              *)
(*                                                                         *)
(* Text is modelled as the sequence of its lexemes: pyparsing skips white  *)
(* space before every token, and every renderer of model.py separates its  *)
(* lexemes either by blanks or by characters that no identifier contains.  *)
(* A Python value is a record with a "type" field naming its class; the    *)
(* plain int that the grammar produces for an integer literal has type     *)
(* "int" and no "source" field.                                            *)
(***************************************************************************)
EXTENDS Integers, Sequences, FiniteSets, TLC

(***************************************************************************)
(* Bounds of the model.                                                    *)
(***************************************************************************)
\* number of distinct identifier names drawn for operands and texts
NumNames == 3
\* modulus standing for the width of a Python hash value
HashWidth == 7919

Names == SubSeq(<<"a", "b", "c", "d", "e">>, 1, NumNames)
NameSet == {Names[i] : i \in 1..Len(Names)}

\* Element.source = None (an empty string is as falsy as None)
NoSource == <<>>

(***************************************************************************)
(* Constructors of model.py (each __init__ only stores its arguments).     *)
(***************************************************************************)
PyInt(n) == [type |-> "int", value |-> n]
PyStr(v) == [type |-> "str", value |-> v]

Identifier(name) == [type |-> "Identifier", name |-> name, source |-> NoSource]

\* Var, IVar, FVar and Def: identifiers that record their type and their
\* section; name is the field _name, "" while it is None
DeclarationClasses == {"Var", "IVar", "FVar", "Def"}
DeclarationSection(cls) ==
    CASE cls = "Var" -> "VAR"
      [] cls = "IVar" -> "IVAR"
      [] cls = "FVar" -> "FROZENVAR"
      [] cls = "Def" -> "DEFINE"
Declaration(cls, type_) ==
    [type |-> cls, name |-> "", dtype |-> type_,
     section |-> DeclarationSection(cls), source |-> NoSource]

\* the exception of object.__getattribute__ for an attribute that the
\* object does not have
AttributeAbsent == "AttributeError"

\* the property Declaration.name: raise AttributeError("Unknown declaration
\* name.") if not self._name, else return self._name
name_getter(self) ==
    IF self.name = "" THEN [exc |-> "AttributeError", val |-> [type |-> "None"]]
    ELSE [exc |-> "none", val |-> PyStr(self.name)]

\* getattr(self, attribute) on a Declaration
getattr(self, attribute) ==
    CASE attribute = "name" -> name_getter(self)
      [] attribute = "type" -> [exc |-> "none", val |-> self.dtype]
      [] attribute = "section" -> [exc |-> "none", val |-> PyStr(self.section)]
      [] OTHER -> [exc |-> AttributeAbsent, val |-> [type |-> "None"]]

ComplexIdentifier(body) ==
    [type |-> "ComplexIdentifier", body |-> body, source |-> NoSource]

Boolean(value) == [type |-> "Boolean", value |-> value, source |-> NoSource]

Case(values) == [type |-> "Case", values |-> values, source |-> NoSource]

\* Word.__init__(self, value): the one attribute is the text of the constant
Word(value) == [type |-> "Word", value |-> value, source |-> NoSource]

Conversion(target_type, value) ==
    [type |-> "Conversion", target_type |-> target_type, value |-> value,
     source |-> NoSource]

WordFunction(function, value, size) ==
    [type |-> "WordFunction", function |-> function, value |-> value,
     size |-> size, source |-> NoSource]

Count(value) == [type |-> "Count", value |-> value, source |-> NoSource]

Set(elements) == [type |-> "Set", elements |-> elements, source |-> NoSource]

Range(start, stop) ==
    [type |-> "Range", start |-> start, stop |-> stop, source |-> NoSource]

Subscript(index) == [type |-> "Subscript", index |-> index, source |-> NoSource]

BitSelection(start, stop) ==
    [type |-> "BitSelection", start |-> start, stop |-> stop,
     source |-> NoSource]

ArrayAccess(array, accesses) ==
    [type |-> "ArrayAccess", array |-> array, accesses |-> accesses,
     source |-> NoSource]

\* Not and Minus, and the functions Next and Init: one operand, stored as
\* value
Unary(cls, value) == [type |-> cls, value |-> value, source |-> NoSource]

\* Concat .. Implies except Ite: two operands, stored as left and right
Binary(cls, left, right) ==
    [type |-> cls, left |-> left, right |-> right, source |-> NoSource]

Ite(condition, left, right) ==
    [type |-> "Ite", condition |-> condition, left |-> left, right |-> right,
     source |-> NoSource]

UnaryClasses == {"Not", "Minus"}
FunctionClasses == {"Next", "Init"}

BinaryClasses ==
    {"Concat", "Mult", "Div", "Mod", "Add", "Sub", "ShiftL", "ShiftR",
     "Union", "In", "Eq", "Neq", "Lt", "Gt", "Le", "Ge", "And", "Or", "Xor",
     "Xnor", "Iff", "Implies"}

\* isinstance(expression, Operator)
IsOperator(n) == n.type \in UnaryClasses \cup BinaryClasses \cup {"Ite"}

\* the classes of model.py that are no Expression, and the Python values
TypeClasses == {"TBoolean", "TWord", "TEnum", "TRange", "TArray", "TModule"}
SectionClasses ==
    {"Variables", "InputVariables", "FrozenVariables", "Defines", "Assigns",
     "Constants", "Trans", "SInit", "Invar", "Fairness", "Justice",
     "Compassion"}
PythonTypes == {"int", "str", "text", "dict", "list", "None"}

\* isinstance(x, Expression)
IsExpression(n) ==
    n.type \notin PythonTypes \cup TypeClasses \cup SectionClasses \cup {"Module"}

\* the class attribute `precedence`
precedence(n) ==
    CASE n.type = "Not" -> 1
      [] n.type = "Concat" -> 2
      [] n.type = "Minus" -> 3
      [] n.type \in {"Mult", "Div", "Mod"} -> 4
      [] n.type \in {"Add", "Sub"} -> 5
      [] n.type \in {"ShiftL", "ShiftR"} -> 6
      [] n.type = "Union" -> 7
      [] n.type = "In" -> 8
      [] n.type \in {"Eq", "Neq", "Lt", "Gt", "Le", "Ge"} -> 9
      [] n.type = "And" -> 10
      [] n.type \in {"Or", "Xor", "Xnor"} -> 11
      [] n.type = "Ite" -> 12
      [] n.type = "Iff" -> 13
      [] n.type = "Implies" -> 14
      [] OTHER -> 0

\* the lexeme that each binary class writes between its operands
OpToken(cls) ==
    CASE cls = "Concat" -> "::"
      [] cls = "Mult" -> "*"
      [] cls = "Div" -> "/"
      [] cls = "Mod" -> "mod"
      [] cls = "Add" -> "+"
      [] cls = "Sub" -> "-"
      [] cls = "ShiftL" -> "<<"
      [] cls = "ShiftR" -> ">>"
      [] cls = "Union" -> "union"
      [] cls = "In" -> "in"
      [] cls = "Eq" -> "="
      [] cls = "Neq" -> "!="
      [] cls = "Lt" -> "<"
      [] cls = "Gt" -> ">"
      [] cls = "Le" -> "<="
      [] cls = "Ge" -> ">="
      [] cls = "And" -> "&"
      [] cls = "Or" -> "|"
      [] cls = "Xor" -> "xor"
      [] cls = "Xnor" -> "xnor"
      [] cls = "Iff" -> "<->"
      [] cls = "Implies" -> "->"

\* str(int) and int(str) on the integer literals of the model
IntLexemes == <<"0", "1", "2">>
IntToStr(n) == IntLexemes[n + 1]
IsIntLexeme(t) == \E i \in 1..Len(IntLexemes) : IntLexemes[i] = t
StrToInt(t) == (CHOOSE i \in 1..Len(IntLexemes) : IntLexemes[i] = t) - 1

(***************************************************************************)
(* Rendering: __str__ of every class and Operator._enclose.                *)
(***************************************************************************)
RECURSIVE Str(_)

\* "".join(str(e) for e in seq)
RECURSIVE JoinStr(_)
JoinStr(seq) ==
    IF seq = <<>> THEN <<>> ELSE Str(Head(seq)) \o JoinStr(Tail(seq))

\* sep.join(str(e) for e in seq)
RECURSIVE JoinStrSep(_, _)
JoinStrSep(seq, sep) ==
    IF seq = <<>> THEN <<>>
    ELSE IF Len(seq) = 1 THEN Str(seq[1])
    ELSE Str(Head(seq)) \o sep \o JoinStrSep(Tail(seq), sep)

\* a defect that C6 must detect: the comparison with `>=` in place of `>`
NeedsParenthesesNotStrict(parent, expression) ==
    IsOperator(expression) /\ precedence(expression) >= precedence(parent)

\* the comparison of Operator._enclose
NeedsParentheses(parent, expression) ==
    IsOperator(expression) /\ precedence(expression) > precedence(parent)

\* Operator._enclose
_enclose(self, expression) ==
    IF NeedsParentheses(self, expression)
    THEN <<"(">> \o Str(expression) \o <<")">>
    ELSE Str(expression)

\* "\n".join(str(cond) + ": " + str(body) + ";" for cond, body in values)
RECURSIVE CaseBodyStr(_)
CaseBodyStr(values) ==
    IF values = <<>> THEN <<>>
    ELSE Str(values[1][1]) \o <<":">> \o Str(values[1][2]) \o <<";">>
         \o CaseBodyStr(Tail(values))

\* the classes whose __str__ returns self.source when it is set; Not.__str__
\* evaluates self.source and drops it
ReturnsSource(cls) == cls # "Not"

\* the text a class generates when it does not return its source
Canonical(n) ==
    CASE n.type = "Identifier" -> <<n.name>>
      [] n.type \in DeclarationClasses -> <<n.name>>
      [] n.type = "TBoolean" -> <<"boolean">>
      [] n.type = "TWord" ->
            (IF n.sign # "" THEN <<n.sign>> ELSE <<>>) \o <<"word", "[">>
            \o Str(n.size) \o <<"]">>
      [] n.type = "TEnum" ->
            <<"{">> \o JoinStrSep(n.values, <<",">>) \o <<"}">>
      [] n.type = "TRange" -> Str(n.start) \o <<"..">> \o Str(n.stop)
      [] n.type = "TArray" ->
            <<"array">> \o Str(n.start) \o <<"..">> \o Str(n.stop)
            \o <<"of">> \o Str(n.elementtype)
      [] n.type = "TModule" ->
            (IF n.process THEN <<"process">> ELSE <<>>) \o Str(n.modulename)
            \o <<"(">> \o JoinStrSep(n.args, <<",">>) \o <<")">>
      [] n.type = "ComplexIdentifier" -> JoinStr(n.body)
      [] n.type = "Boolean" -> <<n.value>>
      [] n.type = "Word" -> <<n.value>>
      [] n.type = "Conversion" ->
            Str(n.target_type) \o <<"(">> \o Str(n.value) \o <<")">>
      [] n.type = "WordFunction" ->
            Str(n.function) \o <<"(">> \o Str(n.value) \o <<",">>
            \o Str(n.size) \o <<")">>
      [] n.type = "Count" -> <<"count", "(">> \o Str(n.value) \o <<")">>
      [] n.type = "Case" -> <<"case">> \o CaseBodyStr(n.values) \o <<"esac">>
      [] n.type = "Set" ->
            <<"{">> \o JoinStrSep(n.elements, <<",">>) \o <<"}">>
      [] n.type = "Range" -> Str(n.start) \o <<"..">> \o Str(n.stop)
      [] n.type = "Subscript" -> <<"[">> \o Str(n.index) \o <<"]">>
      [] n.type = "BitSelection" ->
            <<"[">> \o Str(n.start) \o <<":">> \o Str(n.stop) \o <<"]">>
      [] n.type = "ArrayAccess" -> Str(n.array) \o JoinStr(n.accesses)
      [] n.type = "Next" -> <<"next", "(">> \o Str(n.value) \o <<")">>
      [] n.type = "Init" -> <<"init", "(">> \o Str(n.value) \o <<")">>
      [] n.type = "Not" -> <<"!">> \o _enclose(n, n.value)
      [] n.type = "Minus" -> <<"-">> \o _enclose(n, n.value)
      [] n.type = "Ite" ->
            _enclose(n, n.condition) \o <<"?">> \o _enclose(n, n.left)
            \o <<":">> \o _enclose(n, n.right)
      [] n.type \in BinaryClasses ->
            _enclose(n, n.left) \o <<OpToken(n.type)>> \o _enclose(n, n.right)

\* str(x): the builtin on an int, __str__ on a node
Str(n) ==
    IF n.type = "int" THEN <<IntToStr(n.value)>>
    ELSE IF n.type = "str" THEN <<n.value>>
    ELSE IF n.source # NoSource /\ ReturnsSource(n.type) THEN n.source
    ELSE Canonical(n)

(***************************************************************************)
(* Structural equality: the equals method of every class.  A call returns  *)
(* "T" or "F", or "E" when it raises (AttributeError: a plain int has no   *)
(* equals; TypeError: __bool__ of an Eq node returned a non-bool).  Python *)
(* evaluates `and` and `or` left to right and stops at the first operand   *)
(* that decides the result; an exception ends the evaluation.              *)
(***************************************************************************)
AndE(p, q) == IF p = "T" THEN q ELSE p
OrE(p, q) == IF p = "F" THEN q ELSE p
NotE(p) == IF p = "E" THEN "E" ELSE IF p = "T" THEN "F" ELSE "T"
BoolE(b) == IF b THEN "T" ELSE "F"

\* a defect that C3 must detect: Sub compared as the commutative classes are
EqualsShapeSubBoth(cls) ==
    IF cls \in {"Mult", "Add", "Union", "Eq", "And", "Or", "Xor", "Xnor", "Iff",
                "Sub"}
    THEN "both"
    ELSE IF cls = "Neq" THEN "negated"
    ELSE "ordered"

\* the shape of the body of equals in each binary class:
\*   "both"   (left ~ left and right ~ right) or (left ~ right and right ~ left)
\*   "negated" the body of Neq.equals
\*   "ordered" left ~ left and right ~ right
EqualsShape(cls) ==
    IF cls \in {"Mult", "Add", "Union", "Eq", "And", "Or", "Xor", "Xnor", "Iff"}
    THEN "both"
    ELSE IF cls = "Neq" THEN "negated"
    ELSE "ordered"

RECURSIVE equals(_, _)

\* the operand that Expression.__eq__ compares with: a str operand is first
\* parsed with next_expression ("self" is the one str of a complex
\* identifier that parses; ".", "[" and "]" raise)
EqOperand(y) ==
    IF y.type = "str" /\ y.value = "self" THEN ComplexIdentifier(<<y>>)
    ELSE y

\* the truth value of `x == y` between two elements of a container:
\* the builtin comparison of two ints or strs; Expression.__eq__ builds
\* Eq(x, y), whose __bool__ is x.equals(y) for two expressions and otherwise
\* returns the Eq node of `left == right`, which bool() rejects
PyEq(x, y) ==
    IF ~IsExpression(x) /\ ~IsExpression(y)
    THEN BoolE(x.type = y.type /\ x.value = y.value)
    ELSE IF IsExpression(x) /\ IsExpression(y) THEN equals(x, y)
    ELSE IF IsExpression(x) /\ IsExpression(EqOperand(y))
    THEN equals(x, EqOperand(y))
    ELSE IF IsExpression(y) /\ IsExpression(EqOperand(x))
    THEN equals(y, EqOperand(x))
    ELSE "E"

\* `==` of two sequences: same length, then the elements from left to right
RECURSIVE SeqEq(_, _)
SeqEq(s, t) ==
    IF Len(s) # Len(t) THEN "F"
    ELSE IF s = <<>> THEN "T"
    ELSE AndE(PyEq(Head(s), Head(t)), SeqEq(Tail(s), Tail(t)))

\* `==` of two ordered mappings, held as sequences of <<key, value>>
RECURSIVE ItemsEq(_, _)
ItemsEq(s, t) ==
    IF Len(s) # Len(t) THEN "F"
    ELSE IF s = <<>> THEN "T"
    ELSE AndE(AndE(PyEq(s[1][1], t[1][1]), PyEq(s[1][2], t[1][2])),
              ItemsEq(Tail(s), Tail(t)))

\* some element of t equals x
RECURSIVE MemberE(_, _)
MemberE(x, t) ==
    IF t = <<>> THEN "F" ELSE OrE(PyEq(x, Head(t)), MemberE(x, Tail(t)))

\* every element of s equals some element of t
RECURSIVE SubsetE(_, _)
SubsetE(s, t) ==
    IF s = <<>> THEN "T" ELSE AndE(MemberE(Head(s), t), SubsetE(Tail(s), t))

equals(self, other) ==
    IF ~IsExpression(self) THEN "E"
    ELSE IF self.type # other.type THEN "F"
    ELSE CASE self.type = "Identifier" -> BoolE(self.name = other.name)
           [] self.type \in DeclarationClasses ->
                 \* the name property raises while the name is unknown
                 IF self.name = "" \/ other.name = "" THEN "E"
                 ELSE BoolE(self.name = other.name)
           [] self.type = "ComplexIdentifier" -> SeqEq(self.body, other.body)
           [] self.type = "Boolean" -> BoolE(self.value = other.value)
           [] self.type = "Word" -> BoolE(self.value = other.value)
           [] self.type = "Conversion" ->
                 AndE(BoolE(self.target_type = other.target_type),
                      equals(self.value, other.value))
           [] self.type = "WordFunction" ->
                 AndE(BoolE(self.function = other.function),
                      AndE(equals(self.value, other.value),
                           equals(self.size, other.size)))
           [] self.type = "Count" ->
                 \* len(self.value): neither a node nor an int has a length
                 "E"
           [] self.type = "Case" -> ItemsEq(self.values, other.values)
           [] self.type = "Set" ->
                 AndE(SubsetE(self.elements, other.elements),
                      SubsetE(other.elements, self.elements))
           [] self.type = "Range" ->
                 AndE(PyEq(self.start, other.start),
                      PyEq(self.stop, other.stop))
           [] self.type = "Subscript" -> equals(self.index, other.index)
           [] self.type = "BitSelection" ->
                 AndE(equals(self.start, other.start),
                      equals(self.stop, other.stop))
           [] self.type = "ArrayAccess" ->
                 AndE(equals(self.array, other.array),
                      SeqEq(self.accesses, other.accesses))
           [] self.type \in UnaryClasses \cup FunctionClasses ->
                 equals(self.value, other.value)
           [] self.type = "Ite" ->
                 AndE(equals(self.condition, other.condition),
                      AndE(equals(self.left, other.left),
                           equals(self.right, other.right)))
           [] self.type \in BinaryClasses ->
                 CASE EqualsShape(self.type) = "both" ->
                        OrE(AndE(equals(self.left, other.left),
                                 equals(self.right, other.right)),
                            AndE(equals(self.left, other.right),
                                 equals(self.right, other.left)))
                   [] EqualsShape(self.type) = "negated" ->
                        AndE(OrE(NotE(equals(self.left, other.left)),
                                 NotE(equals(self.right, other.right))),
                             OrE(NotE(equals(self.left, other.right)),
                                 NotE(equals(self.right, other.left))))
                   [] OTHER ->
                        AndE(equals(self.left, other.left),
                             equals(self.right, other.right))

(***************************************************************************)
(* Hashing: __hash__ of every class.  A hash is a record: exc is "none"    *)
(* and val the value, or exc names the exception raised.  Values are kept  *)
(* modulo HashWidth.                                                       *)
(***************************************************************************)
HashValue(v) == [exc |-> "none", val |-> v % HashWidth]
HashRaises(e) == [exc |-> e, val |-> 0]

\* hash of a str: one value per string, fixed for the life of the process
StrTable ==
    <<"Identifier", "ComplexIdentifier", "Boolean", "Case", "Set", "Not",
      "Concat", "Minus", "Mult", "Div", "Mod", "Add", "Sub", "ShiftL",
      "ShiftR", "Union", "In", "Eq", "Neq", "Lt", "Gt", "Le", "Ge", "And",
      "Or", "Xor", "Xnor", "Ite", "Iff", "Implies", "TRUE", "FALSE",
      "Range", "Subscript", "BitSelection", "ArrayAccess", ".", "self", "[",
      "]", "Next", "Init", "a", "b", "c", "d", "e", "Word", "Conversion",
      "WordFunction", "Count", "word1", "bool", "toint", "signed", "unsigned",
      "extend", "resize", ",", "0sd8_3", "0b_1", "0uh4_F">>
StrHash(s) ==
    ((CHOOSE i \in 1..Len(StrTable) : StrTable[i] = s) * 397 + 11) % HashWidth

RECURSIVE Pow23(_)
Pow23(k) == IF k = 0 THEN 1 ELSE (23 * Pow23(k - 1)) % HashWidth

\* the string literal each __hash__ passes to hash(): Neq passes "Add"
HashLabel(cls) == IF cls = "Neq" THEN "Add" ELSE cls

\* the exponent of 23 that multiplies hash(self.right) in a binary class
RightExponent(cls) ==
    IF cls \in {"Mult", "Add", "Union", "Eq", "Neq", "And", "Or", "Xor", "Xnor",
                "Iff"}
    THEN 2 ELSE 3

RECURSIVE Hash(_)

\* 17 + 23 * hash(label) + sum of 23**exps[i] * hash(parts[i]); the first
\* part whose hash raises ends the evaluation
RECURSIVE HashSum(_, _, _)
HashSum(acc, parts, exps) ==
    IF parts = <<>> THEN HashValue(acc)
    ELSE LET h == Hash(Head(parts)) IN
         IF h.exc # "none" THEN h
         ELSE HashSum((acc + ((Pow23(Head(exps)) * h.val) % HashWidth))
                        % HashWidth,
                      Tail(parts), Tail(exps))

HashOf(label, parts, exps) ==
    HashSum((17 + 23 * StrHash(label)) % HashWidth, parts, exps)

\* hash of a sequence of values: element hashes combined in order
RECURSIVE SeqHash(_)
SeqHash(s) ==
    IF s = <<>> THEN HashValue(1)
    ELSE LET h == Hash(Head(s)) IN
         IF h.exc # "none" THEN h
         ELSE LET r == SeqHash(Tail(s)) IN
              IF r.exc # "none" THEN r
              ELSE HashValue(((31 * r.val) % HashWidth) + h.val)

\* hash(frozenset(s)): element hashes combined whatever their order
RECURSIVE FrozensetHash(_)
FrozensetHash(s) ==
    IF s = <<>> THEN HashValue(0)
    ELSE LET h == Hash(Head(s)) IN
         IF h.exc # "none" THEN h
         ELSE LET r == FrozensetHash(Tail(s)) IN
              IF r.exc # "none" THEN r
              ELSE IF MemberE(Head(s), Tail(s)) = "T" THEN r
              ELSE HashValue(r.val + h.val)

\* 17 + 23 * hash(label) + 23**2 * <hash of a builtin value>
HashWith(label, h) ==
    IF h.exc # "none" THEN h
    ELSE HashValue(((17 + 23 * StrHash(label)) % HashWidth)
                   + ((Pow23(2) * h.val) % HashWidth))

\* whether hash(self.values) of a Case is defined: an OrderedDict is unhashable
CaseValuesHashable == FALSE

Hash(n) ==
    CASE n.type = "int" -> HashValue(n.value)
      [] n.type = "str" -> HashValue(StrHash(n.value))
      [] n.type = "Identifier" ->
            HashWith("Identifier", HashValue(StrHash(n.name)))
      [] n.type \in DeclarationClasses ->
            IF n.name = "" THEN HashRaises("AttributeError")
            ELSE HashWith("Identifier", HashValue(StrHash(n.name)))
      [] n.type = "ComplexIdentifier" ->
            HashWith("ComplexIdentifier", SeqHash(n.body))
      [] n.type = "Boolean" -> HashWith("Boolean", HashValue(StrHash(n.value)))
      [] n.type = "Word" -> HashWith("Word", HashValue(StrHash(n.value)))
      [] n.type = "Conversion" ->
            HashOf("Conversion", <<n.target_type, n.value>>, <<2, 3>>)
      [] n.type = "WordFunction" ->
            HashOf("WordFunction", <<n.function, n.value, n.size>>, <<2, 3, 4>>)
      [] n.type = "Count" -> HashOf("Count", <<n.value>>, <<2>>)
      [] n.type = "Case" ->
            IF CaseValuesHashable THEN HashWith("Case", HashValue(0))
            ELSE HashRaises("TypeError")
      [] n.type = "Set" -> HashWith("Set", FrozensetHash(n.elements))
      [] n.type = "Range" -> HashOf("Range", <<n.start, n.stop>>, <<2, 3>>)
      [] n.type = "Subscript" -> HashOf("Subscript", <<n.index>>, <<2>>)
      [] n.type = "BitSelection" ->
            HashOf("BitSelection", <<n.start, n.stop>>, <<2, 3>>)
      [] n.type = "ArrayAccess" ->
            \* hash(self.accesses): the slice t[1:] is a list, unhashable
            LET h == Hash(n.array) IN
            IF h.exc # "none" THEN h ELSE HashRaises("TypeError")
      [] n.type \in UnaryClasses \cup FunctionClasses ->
            HashOf(n.type, <<n.value>>, <<2>>)
      [] n.type = "Ite" ->
            HashOf("Ite", <<n.condition, n.left, n.right>>, <<2, 3, 4>>)
      [] n.type \in BinaryClasses ->
            HashOf(HashLabel(n.type), <<n.left, n.right>>,
                   <<2, RightExponent(n.type)>>)

(***************************************************************************)
(* Containers.  An OrderedDict is [type |-> "dict", items], items a        *)
(* sequence of <<key, value>> in insertion order; a list is               *)
(* [type |-> "list", items].  A statement that builds a container returns  *)
(* [exc, val]: exc is "none" or the exception raised.                      *)
(***************************************************************************)
PyDict(items) == [type |-> "dict", items |-> items]
PyList(items) == [type |-> "list", items |-> items]
NoNode == [type |-> "None"]
Returns(val) == [exc |-> "none", val |-> val]
Raises(e) == [exc |-> e, val |-> NoNode]

\* the slot of key k in a dict: its hash, then `==`
KeyMatch(k1, k2) == Hash(k1).val = Hash(k2).val /\ PyEq(k1, k2) = "T"

\* the places of the items whose key is k, and the first place of a set
KeySlots(items, k) == {i \in 1..Len(items) : KeyMatch(items[i][1], k)}
FirstSlot(idx) == CHOOSE j \in idx : \A m \in idx : j <= m

\* d[k] = v: the value of an existing key is replaced and the key keeps
\* its place, a new key is appended; an unhashable key raises
DictSetItem(items, idx, k, v) ==
    IF idx = {} THEN Returns(PyDict(Append(items, <<k, v>>)))
    ELSE Returns(PyDict([items EXCEPT
                           ![FirstSlot(idx)] = <<items[FirstSlot(idx)][1], v>>]))
DictSet(d, k, v) ==
    IF d.exc # "none" THEN d
    ELSE IF Hash(k).exc # "none" THEN Raises(Hash(k).exc)
    ELSE DictSetItem(d.val.items, KeySlots(d.val.items, k), k, v)

\* OrderedDict(zip(t[::2], t[1::2]))
RECURSIVE ZipDict(_, _)
ZipDict(t, d) ==
    IF Len(t) < 2 THEN d
    ELSE ZipDict(SubSeq(t, 3, Len(t)), DictSet(d, t[1], t[2]))

\* target.update(other) for two dicts
RECURSIVE DictUpdate(_, _)
DictUpdate(d, items) ==
    IF items = <<>> THEN d
    ELSE DictUpdate(DictSet(d, items[1][1], items[1][2]), Tail(items))

\* update(target, other) of pynusmv.utils: a mapping is updated key by
\* key, later values winning; a listing is extended in order
update(target, other) ==
    IF target.type = "dict" THEN DictUpdate(Returns(target), other.items)
    ELSE Returns(PyList(target.items \o other.items))

(***************************************************************************)
(* Type specifiers.                                                        *)
(***************************************************************************)
TBoolean == [type |-> "TBoolean", source |-> NoSource]

\* sign is "" for None
TWord(size, sign) ==
    [type |-> "TWord", size |-> size, sign |-> sign, source |-> NoSource]

TEnum(values) == [type |-> "TEnum", values |-> values, source |-> NoSource]

TRange(start, stop) ==
    [type |-> "TRange", start |-> start, stop |-> stop, source |-> NoSource]

TArray(start, stop, elementtype) ==
    [type |-> "TArray", start |-> start, stop |-> stop,
     elementtype |-> elementtype, source |-> NoSource]

TModule(modulename, args, process) ==
    [type |-> "TModule", modulename |-> modulename, args |-> args,
     process |-> process, source |-> NoSource]


(***************************************************************************)
(* The grammar of parser.py.  A production applied to the text s at the    *)
(* position i returns [ok, pos, toks]: whether it matched, the position    *)
(* after the match, and its tokens (after its parse action); a literal     *)
(* that is not suppressed is the token PyStr(lexeme).  `+` matches in      *)
(* sequence, `|` takes the first alternative that matches, `^` the longest *)
(* (the first of the longest), ZeroOrMore and Optional match greedily and  *)
(* never give back.                                                        *)
(***************************************************************************)
Matched(pos, toks) == [ok |-> TRUE, pos |-> pos, toks |-> toks, exc |-> "none"]
NoMatch == [ok |-> FALSE, pos |-> 0, toks |-> <<>>, exc |-> "ParseException"]
\* a parse action raised an exception that is no ParseException
ActionRaises(e) == [ok |-> FALSE, pos |-> 0, toks |-> <<>>, exc |-> e]

\* the lexeme at position i, or "" at the end of the text
At(s, i) == IF i <= Len(s) THEN s[i] ELSE ""

\* Literal(lit), kept as a token or suppressed
Lit(s, i, lit) ==
    IF At(s, i) = lit THEN Matched(i + 1, <<PyStr(lit)>>) ELSE NoMatch
Sup(s, i, lit) == IF At(s, i) = lit THEN Matched(i + 1, <<>>) ELSE NoMatch

\* the lexemes that Word(alphas + "_", alphanums + "_$#-") matches whole
Keywords ==
    {"TRUE", "FALSE", "self", "mod", "xor", "xnor", "union", "in", "boolean",
     "next", "init", "case", "esac", "word1", "bool", "toint", "extend",
     "resize", "count",
     "word", "signed", "unsigned", "process", "array", "of", "MODULE", "VAR",
     "IVAR", "FROZENVAR", "DEFINE", "CONSTANTS", "ASSIGN", "TRANS", "INIT",
     "INVAR", "FAIRNESS", "JUSTICE", "COMPASSION"}
\* the last three characters of the word selfish: in a text Ish is written
\* after the lexeme "self" with no blank between them
Ish == "ish"
WordLexemes == NameSet \cup Keywords \cup {Ish}
IsWordLexeme(t) == t \in WordLexemes

\* Python slices of a token list: t[k::2] (k counted from 0)
RECURSIVE EveryOther(_, _)
EveryOther(t, k) ==
    IF k + 1 > Len(t) THEN <<>> ELSE <<t[k + 1]>> \o EveryOther(t, k + 2)

\* functools.reduce(f, seq) for f = lambda e, n: cls(e, n)
RECURSIVE ReduceLeft(_, _, _)
ReduceLeft(cls, acc, rest) ==
    IF rest = <<>> THEN acc
    ELSE ReduceLeft(cls, Binary(cls, acc, Head(rest)), Tail(rest))

\* functools.reduce(lambda e, n: cls(e), marks, last)
RECURSIVE ReduceUnary(_, _, _)
ReduceUnary(cls, marks, last) ==
    IF marks = <<>> THEN last
    ELSE ReduceUnary(cls, Tail(marks), Unary(cls, last))

\* the table _otc of _reduce_list_to_expr
_otc(op) ==
    CASE op = "*" -> "Mult"
      [] op = "/" -> "Div"
      [] op = "mod" -> "Mod"
      [] op = "+" -> "Add"
      [] op = "-" -> "Sub"
      [] op = "<<" -> "ShiftL"
      [] op = ">>" -> "ShiftR"
      [] op = "=" -> "Eq"
      [] op = "!=" -> "Neq"
      [] op = "<" -> "Lt"
      [] op = ">" -> "Gt"
      [] op = "<=" -> "Le"
      [] op = ">=" -> "Ge"
      [] op = "|" -> "Or"
      [] op = "xor" -> "Xor"
      [] op = "xnor" -> "Xnor"

\* res = l[0]; for op, t in zip(l[1::2], l[2::2]): res = _otc[op](res, t)
RECURSIVE ReduceOps(_, _, _)
ReduceOps(res, ops, ts) ==
    IF ops = <<>> \/ ts = <<>> THEN res
    ELSE ReduceOps(Binary(_otc(Head(ops).value), res, Head(ts)),
                   Tail(ops), Tail(ts))

\* a defect that C9 must detect: the operands folded from the right
RECURSIVE ReduceOpsFromRight(_)
ReduceOpsFromRight(l) ==
    IF Len(l) < 3 THEN l[1]
    ELSE Binary(_otc(l[2].value), l[1],
                ReduceOpsFromRight(SubSeq(l, 3, Len(l))))

\* _reduce_list_to_expr(l)
_reduce_list_to_expr(l) == ReduceOps(l[1], EveryOther(l, 1), EveryOther(l, 2))

\* the parse action of _implies: reduce(lambda e, n: Implies(n, e), ...)
RECURSIVE ReduceImplies(_, _)
ReduceImplies(acc, rest) ==
    IF rest = <<>> THEN acc
    ELSE ReduceImplies(Binary("Implies", Head(rest), acc), Tail(rest))

RECURSIVE Parse(_, _, _)

\* _basic_expr <<= _implies
RECURSIVE _implies(_, _)

\* a + b: the match `more` of b after the tokens of a
Prepend(toks, more) ==
    IF more.ok THEN Matched(more.pos, toks \o more.toks) ELSE more

\* r + prod, r + Literal(lit), r + Suppress(lit) for a match r
Then(r, prod, s) ==
    IF r.ok THEN Prepend(r.toks, Parse(prod, s, r.pos)) ELSE r
ThenLit(r, s, lit) == IF r.ok THEN Prepend(r.toks, Lit(s, r.pos, lit)) ELSE r
ThenSup(r, s, lit) == IF r.ok THEN Prepend(r.toks, Sup(s, r.pos, lit)) ELSE r

\* a | b: b is tried when a does not match; an exception of a parse action
\* that is no ParseException is not caught
MatchFirst(a, b) == IF a.ok \/ a.exc # "ParseException" THEN a ELSE b
MatchFirst3(a, b, c) ==
    IF a.ok \/ a.exc # "ParseException" THEN a
    ELSE IF b.ok \/ b.exc # "ParseException" THEN b
    ELSE c

\* Optional(r) for the match r tried at position i
Optional(r, i) == MatchFirst(r, Matched(i, <<>>))

\* r + Optional(prod), r + Optional(Suppress(lit))
ThenOptional(r, prod, s) ==
    IF r.ok THEN Prepend(r.toks, Optional(Parse(prod, s, r.pos), r.pos))
    ELSE r
ThenOptionalSup(r, s, lit) ==
    IF r.ok THEN Prepend(r.toks, Optional(Sup(s, r.pos, lit), r.pos)) ELSE r

\* a ^ b: the longer match, the first on a tie
Longest(a, b) ==
    IF b.ok /\ (~a.ok \/ b.pos > a.pos) THEN b
    ELSE IF a.ok THEN a
    ELSE b

\* Group(r)
Group(r) == IF r.ok THEN Matched(r.pos, <<PyList(r.toks)>>) ELSE r

\* ZeroOrMore(oneOf(ops) + prod), or ZeroOrMore(Suppress(op) + prod) when
\* keep is FALSE; r is the match of prod after the operator at position i
RECURSIVE ZeroOrMoreOp(_, _, _, _, _)
ZeroOrMoreOpRest(ops, keep, prod, s, i, r) ==
    IF ~r.ok THEN Matched(i, <<>>)
    ELSE Prepend((IF keep THEN <<PyStr(s[i])>> ELSE <<>>) \o r.toks,
                 ZeroOrMoreOp(ops, keep, prod, s, r.pos))
ZeroOrMoreOp(ops, keep, prod, s, i) ==
    IF At(s, i) \notin ops THEN Matched(i, <<>>)
    ELSE ZeroOrMoreOpRest(ops, keep, prod, s, i, Parse(prod, s, i + 1))

\* ZeroOrMore(lit) for a kept literal
RECURSIVE ZeroOrMoreLit(_, _, _)
ZeroOrMoreLit(lit, s, i) ==
    IF At(s, i) # lit THEN Matched(i, <<>>)
    ELSE Prepend(<<PyStr(lit)>>, ZeroOrMoreLit(lit, s, i + 1))

\* ZeroOrMore(prod) and OneOrMore(prod); e is the match of prod at
\* position i, and an exception of a parse action ends the repetition
RECURSIVE ZeroOrMore(_, _, _)
ZeroOrMoreRest(prod, s, i, e) ==
    IF e.ok THEN Prepend(e.toks, ZeroOrMore(prod, s, e.pos))
    ELSE IF e.exc = "ParseException" THEN Matched(i, <<>>)
    ELSE e
ZeroOrMore(prod, s, i) == ZeroOrMoreRest(prod, s, i, Parse(prod, s, i))
OneOrMoreRest(prod, s, first) ==
    IF first.ok THEN Prepend(first.toks, ZeroOrMore(prod, s, first.pos))
    ELSE first
OneOrMore(prod, s, i) == OneOrMoreRest(prod, s, Parse(prod, s, i))

\* first + ZeroOrMore(oneOf(ops) + prod) for the match first
FirstAndMore(first, ops, keep, prod, s) ==
    IF first.ok
    THEN Prepend(first.toks, ZeroOrMoreOp(ops, keep, prod, s, first.pos))
    ELSE first

\* delimitedList(prod): prod + ZeroOrMore(Suppress(",") + prod)
DelimitedList(prod, s, i) ==
    FirstAndMore(Parse(prod, s, i), {","}, FALSE, prod, s)

\* the match at pos of a production whose parse action gave d
ActionResult(pos, d) ==
    IF d.exc # "none" THEN ActionRaises(d.exc) ELSE Matched(pos, <<d.val>>)

\* a body of pairs matched as r, with its action
\* OrderedDict(zip(t[::2], t[1::2]))
MappingBody(r) ==
    IF r.ok THEN ActionResult(r.pos, ZipDict(r.toks, Returns(PyDict(<<>>))))
    ELSE r

\* the parse actions that are set on the productions below the operators
\* and on the type specifiers, by production, applied to the tokens t;
\* t[1] is the t[0] of the source
ParseAction(prod, t) ==
    CASE prod = "_complex_identifier" -> ComplexIdentifier(t)
      [] prod = "_range_constant" -> Range(t[1], t[2])
      [] prod = "_next" -> Unary("Next", t[2])
      [] prod = "_array_subscript" -> Subscript(t[1])
      [] prod = "_word_bit_selection" -> BitSelection(t[1], t[2])
      [] prod = "_set_set" -> Set(t)
      [] prod = "_boolean_type" -> TBoolean
      [] prod = "_word_type" ->
            IF t[1].value = "word" THEN TWord(t[2], "")
            ELSE TWord(t[3], t[1].value)
      [] prod = "_enum_type" -> TEnum(t)
      [] prod = "_range_type" -> TRange(t[1], t[2])
      [] prod = "_array_type" -> TArray(t[1], t[2], t[3])
      [] prod = "_module_type_specifier" ->
            IF t[1].type = "str" /\ t[1].value = "process"
            THEN TModule(t[2], SubSeq(t, 3, Len(t)), TRUE)
            ELSE TModule(t[1], Tail(t), FALSE)
      [] prod = "_assign_identifier" ->
            IF t[1].type = "str" /\ t[1].value = "init" THEN Unary("Init", t[2])
            ELSE IF t[1].type = "str" /\ t[1].value = "next" THEN Unary("Next", t[2])
            ELSE t[1]

\* prod.setParseAction(...): the tokens of the match r are replaced by the
\* value of the action
setParseAction(prod, r) ==
    IF r.ok THEN Matched(r.pos, <<ParseAction(prod, r.toks)>>) ELSE r

\* identifier = PWord(alphas + "_", alphanums + "_$#-")
\* (a Word takes every character of the word, a Literal only its own)
identifier(s, i) ==
    IF At(s, i) = "self" /\ At(s, i + 1) = Ish
    THEN Matched(i + 2, <<Identifier("selfish")>>)
    ELSE IF IsWordLexeme(At(s, i)) THEN Matched(i + 1, <<Identifier(s[i])>>)
    ELSE NoMatch

\* _cip: Optional("." "self" _cip | "." identifier _cip | "[" expr "]" _cip)
_cip(s, i) ==
    Optional(
        MatchFirst(
            Then(ThenLit(Lit(s, i, "."), s, "self"), "_cip", s),
            MatchFirst(
                Then(Then(Lit(s, i, "."), "identifier", s), "_cip", s),
                Then(ThenLit(Then(Lit(s, i, "["), "simple_expression", s),
                             s, "]"),
                     "_cip", s))),
        i)

\* _complex_identifier, with its parse action ComplexIdentifier(t)
_complex_identifier(s, i) ==
    setParseAction("_complex_identifier",
                   MatchFirst(Then(Lit(s, i, "self"), "_cip", s),
                              Then(identifier(s, i), "_cip", s)))

\* _integer_number, with its parse action int(t[0])
_integer_number(s, i) ==
    IF IsIntLexeme(At(s, i)) THEN Matched(i + 1, <<PyInt(StrToInt(s[i]))>>)
    ELSE NoMatch

\* _boolean_constant = oneOf("TRUE FALSE"), with its action Boolean(t[0])
_boolean_constant(s, i) ==
    IF At(s, i) \in {"TRUE", "FALSE"} THEN Matched(i + 1, <<Boolean(s[i])>>)
    ELSE NoMatch

\* the literals that Combine("0" + Optional(_word_sign_specifier)
\* + _word_base + Optional(_word_width) + "_" + _word_value) matches whole
WordConstants == {"0sd8_3", "0b_1", "0uh4_F"}

\* _word_constant, with its parse action Word(t[0]): Combine gives the
\* action one token, the text of the whole literal
_word_constant(s, i) ==
    IF At(s, i) \in WordConstants THEN Matched(i + 1, <<Word(s[i])>>)
    ELSE NoMatch

\* constant = _word_constant | _integer_constant | _boolean_constant
\*          | _symbolic_constant
constant(s, i) ==
    MatchFirst(_word_constant(s, i),
               MatchFirst3(_integer_number(s, i), _boolean_constant(s, i),
                           identifier(s, i)))

\* _next = Literal("next") + "(" + _basic_expr + ")", action Next(t[1])
_next(s, i) ==
    setParseAction("_next",
                   ThenSup(Then(ThenSup(Lit(s, i, "next"), s, "("),
                                "_basic_expr", s),
                           s, ")"))

\* Suppress("(") + _basic_expr + Suppress(")")
Closed(e, s) ==
    IF e.ok /\ At(s, e.pos) # ")" THEN NoMatch
    ELSE IF e.ok THEN Matched(e.pos + 1, e.toks)
    ELSE e
Parenthesised(s, i) ==
    IF At(s, i) = "(" THEN Closed(_implies(s, i + 1), s) ELSE NoMatch

\* _conversion = Literal(target) + Suppress("(") + _basic_expr + Suppress(")")
\* for the five targets, with its action Conversion(t[0], t[1]); e is the
\* match of the operand and of the ")"
ConversionTargets == {"word1", "bool", "toint", "signed", "unsigned"}
ConversionAction(target, e) ==
    IF e.ok THEN Matched(e.pos, <<Conversion(PyStr(target), e.toks[1])>>)
    ELSE e
_conversion(s, i) ==
    IF At(s, i) \in ConversionTargets /\ At(s, i + 1) = "("
    THEN ConversionAction(s[i], Closed(Parse("_basic_expr", s, i + 2), s))
    ELSE NoMatch

\* _word_function = Literal(f) + Suppress("(") + _basic_expr + ","
\*                  + _basic_expr + Suppress(")") for extend and resize, with
\* its action WordFunction(t[0], t[1], t[2]); the "," is a token
WordFunctionAction(r) ==
    IF r.ok
    THEN Matched(r.pos, <<WordFunction(r.toks[1], r.toks[2], r.toks[3])>>)
    ELSE r
_word_function(s, i) ==
    IF At(s, i) \in {"extend", "resize"} /\ At(s, i + 1) = "("
    THEN WordFunctionAction(
             Prepend(<<PyStr(s[i])>>,
                     ThenSup(Then(ThenLit(Parse("_basic_expr", s, i + 2), s, ","),
                                  "_basic_expr", s),
                             s, ")")))
    ELSE NoMatch

\* _count = Literal("count") + Suppress("(") + delimitedList(_basic_expr)
\*          + Suppress(")"), with its action Count(t[1])
CountAction(r) == IF r.ok THEN Matched(r.pos, <<Count(r.toks[2])>>) ELSE r
_count(s, i) ==
    IF At(s, i) = "count" /\ At(s, i + 1) = "("
    THEN CountAction(
             Prepend(<<PyStr("count")>>,
                     ThenSup(DelimitedList("_basic_expr", s, i + 2), s, ")")))
    ELSE NoMatch

\* _case_case = _basic_expr + Suppress(":") + _basic_expr + Suppress(";")
_case_case(s, i) ==
    ThenSup(Then(ThenSup(_implies(s, i), s, ":"), "_basic_expr", s), s, ";")

\* _case_body = OneOrMore(_case_case), with its action
\* OrderedDict(zip(t[::2], t[1::2]))
_case_body(s, i) == MappingBody(OneOrMore("_case_case", s, i))

\* _case = Suppress("case") + _case_body + Suppress("esac"), action Case(t[0])
CaseAction(r) == IF r.ok THEN Matched(r.pos, <<Case(r.toks[1].items)>>) ELSE r
_case(s, i) ==
    CaseAction(ThenSup(Then(Sup(s, i, "case"), "_case_body", s), s, "esac"))

\* the second operand of `^` in _base:
\* _conversion | _word_function | _count | _next
\* | Suppress("(") + _basic_expr + Suppress(")") | _case | constant.
\* Every alternative but the last begins with a literal of its own, so the
\* first lexeme selects the one alternative before `constant` that can match
BaseOther(s, i) ==
    CASE At(s, i) = "(" -> Parenthesised(s, i)
      [] At(s, i) \in ConversionTargets ->
            MatchFirst(_conversion(s, i), constant(s, i))
      [] At(s, i) \in {"extend", "resize"} ->
            MatchFirst(_word_function(s, i), constant(s, i))
      [] At(s, i) = "count" -> MatchFirst(_count(s, i), constant(s, i))
      [] At(s, i) = "next" -> MatchFirst(_next(s, i), constant(s, i))
      [] At(s, i) = "case" -> MatchFirst(_case(s, i), constant(s, i))
      [] OTHER -> constant(s, i)

\* _base = _complex_identifier ^ ( ... ): the longer match, the first on a
\* tie; _complex_identifier begins with a word
BaseChoice(s, i, other) ==
    IF IsWordLexeme(At(s, i)) THEN Longest(_complex_identifier(s, i), other)
    ELSE other
_base(s, i) == BaseChoice(s, i, BaseOther(s, i))

\* _array_subscript and _word_bit_selection, with their actions
_array_subscript(s, i) ==
    setParseAction("_array_subscript",
                   ThenSup(Then(Sup(s, i, "["), "_basic_expr", s), s, "]"))
_word_bit_selection(s, i) ==
    setParseAction("_word_bit_selection",
                   ThenSup(Then(ThenSup(Then(Sup(s, i, "["), "_basic_expr", s),
                                        s, ":"),
                                "_basic_expr", s),
                           s, "]"))

\* _ap = Optional(_array_subscript + _ap | _word_bit_selection + _ap)
_ap(s, i) ==
    Optional(MatchFirst(Then(_array_subscript(s, i), "_ap", s),
                        Then(_word_bit_selection(s, i), "_ap", s)),
             i)

\* _array = _base + _ap: t[0] if len(t) <= 1 else ArrayAccess(t[0], t[1:]);
\* base and ap are the matches of _base and of _ap after it
ArrayAction(base, ap) ==
    IF ~ap.ok THEN ap
    ELSE IF ap.toks = <<>> THEN base
    ELSE Matched(ap.pos, <<ArrayAccess(base.toks[1], ap.toks)>>)
ArrayLevel(base, s) ==
    IF base.ok /\ At(s, base.pos) = "[" THEN ArrayAction(base, _ap(s, base.pos))
    ELSE base
_array(s, i) == ArrayLevel(_base(s, i), s)

\* ZeroOrMore(lit) + prod matched as marks and last, with the action
\* reduce(lambda e, n: cls(e), t[:-1], t[-1])
ReducedUnary(cls, marks, last) ==
    IF last.ok
    THEN Matched(last.pos, <<ReduceUnary(cls, marks.toks, last.toks[1])>>)
    ELSE last

\* _not = ZeroOrMore("!") + _array
_not(s, i) ==
    ReducedUnary("Not", ZeroOrMoreLit("!", s, i),
                 _array(s, ZeroOrMoreLit("!", s, i).pos))

\* the list t[0:1] + t[2::2] that five parse actions reduce
FirstAndEveryOther(t) == <<t[1]>> \o EveryOther(t, 2)

\* first + ZeroOrMore(oneOf(ops) + prod), matched as first and rest, with
\* the action reduce(lambda e, n: cls(e, n), t[0:1] + t[2::2])
Folded(cls, first, rest) ==
    Matched(rest.pos,
            <<ReduceLeft(cls, first.toks[1],
                         Tail(FirstAndEveryOther(first.toks \o rest.toks)))>>)
FoldedLevel(cls, first, ops, keep, prod, s) ==
    IF first.ok
    THEN Folded(cls, first, ZeroOrMoreOp(ops, keep, prod, s, first.pos))
    ELSE first

\* first + ZeroOrMore(oneOf(ops) + prod), matched as first and rest, with
\* the action _reduce_list_to_expr(t)
Reduced(first, rest) ==
    Matched(rest.pos, <<_reduce_list_to_expr(first.toks \o rest.toks)>>)
ReducedLevel(first, ops, prod, s) ==
    IF first.ok
    THEN Reduced(first, ZeroOrMoreOp(ops, TRUE, prod, s, first.pos))
    ELSE first

\* _concat = _not + ZeroOrMore(Suppress("::") + _not)
_concat(s, i) == FoldedLevel("Concat", _not(s, i), {"::"}, FALSE, "_not", s)

\* _minus = ZeroOrMore("-") + _concat
_minus(s, i) ==
    ReducedUnary("Minus", ZeroOrMoreLit("-", s, i),
                 _concat(s, ZeroOrMoreLit("-", s, i).pos))

\* _mult = _minus + ZeroOrMore(oneOf("* / mod") + _minus)
_mult(s, i) == ReducedLevel(_minus(s, i), {"*", "/", "mod"}, "_minus", s)

\* _add = _mult + ZeroOrMore(oneOf("+ -") + _mult)
_add(s, i) == ReducedLevel(_mult(s, i), {"+", "-"}, "_mult", s)

\* _shift = _add + ZeroOrMore(oneOf("<< >>") + _add)
_shift(s, i) == ReducedLevel(_add(s, i), {"<<", ">>"}, "_add", s)

\* _range_constant = _integer_number + Suppress("..") + _integer_number
_range_constant(s, i) ==
    setParseAction("_range_constant",
                   Then(ThenSup(_integer_number(s, i), s, ".."),
                        "_integer_number", s))

\* _set_set = Suppress("{") + delimitedList(_basic_expr) + Suppress("}")
_set_set(s, i) ==
    setParseAction("_set_set",
                   ThenSup(Then(Sup(s, i, "{"), "delimitedList(_basic_expr)",
                                s),
                           s, "}"))

\* _set = _range_constant | _shift | _set_set
_set(s, i) == MatchFirst3(_range_constant(s, i), _shift(s, i), _set_set(s, i))

\* _union = _set + ZeroOrMore("union" + _set)
_union(s, i) == FoldedLevel("Union", _set(s, i), {"union"}, TRUE, "_set", s)

\* _in = _union + ZeroOrMore("in" + _union)
_in(s, i) == FoldedLevel("In", _union(s, i), {"in"}, TRUE, "_union", s)

\* _comparison = _in + ZeroOrMore(oneOf("= != < > <= >=") + _in)
_comparison(s, i) ==
    ReducedLevel(_in(s, i), {"=", "!=", "<", ">", "<=", ">="}, "_in", s)

\* _and = _comparison + ZeroOrMore("&" + _comparison)
_and(s, i) ==
    FoldedLevel("And", _comparison(s, i), {"&"}, TRUE, "_comparison", s)

\* _or = _and + ZeroOrMore(oneOf("| xor xnor") + _and)
_or(s, i) == ReducedLevel(_and(s, i), {"|", "xor", "xnor"}, "_and", s)

\* _ite = _or + Optional("?" + _ite + ":" + _ite), action
\* t[0] if len(t) <= 1 else Ite(t[0], t[2], t[4]); c is the match of _or and
\* rest the match of "?" + _ite + ":" + _ite after it
IteAction(c, rest) ==
    IF rest.ok
    THEN Matched(rest.pos, <<Ite(c.toks[1], rest.toks[2], rest.toks[4])>>)
    ELSE IF rest.exc = "ParseException" THEN c
    ELSE rest
IteLevel(c, s) ==
    IF c.ok /\ At(s, c.pos) = "?"
    THEN IteAction(c, Parse("? _ite : _ite", s, c.pos))
    ELSE c
_ite(s, i) == IteLevel(_or(s, i), s)

\* _iff = _ite + ZeroOrMore("<->" + _ite)
_iff(s, i) == FoldedLevel("Iff", _ite(s, i), {"<->"}, TRUE, "_ite", s)

\* _iff + ZeroOrMore("->" + _implies), matched as first and rest, with the
\* action of _implies
ReducedImplies(first, rest) ==
    Matched(rest.pos,
            <<ReduceImplies(first.toks[1],
                            Tail(FirstAndEveryOther(first.toks \o rest.toks)))>>)
ImpliesLevel(first, s) ==
    IF first.ok
    THEN ReducedImplies(first,
                        ZeroOrMoreOp({"->"}, TRUE, "_implies", s, first.pos))
    ELSE first

\* _implies = _iff + ZeroOrMore("->" + _implies)
_implies(s, i) == ImpliesLevel(_iff(s, i), s)

(***************************************************************************)
(* Type specifiers.                                                        *)
(***************************************************************************)
\* _word_type, with its action
\* TWord(t[1]) if t[0] == "word" else TWord(t[2], sign=t[0])
_word_type(s, i) ==
    setParseAction(
        "_word_type",
        ThenSup(Then(ThenSup(ThenLit(Optional(MatchFirst(Lit(s, i, "unsigned"),
                                                         Lit(s, i, "signed")),
                                              i),
                                     s, "word"),
                             s, "["),
                     "_basic_expr", s),
                s, "]"))

\* _enum_type = "{" delimitedList(_integer_number | _symbolic_constant) "}"
_enum_type(s, i) ==
    setParseAction(
        "_enum_type",
        ThenSup(Then(Sup(s, i, "{"),
                     "delimitedList(_integer_number | _symbolic_constant)", s),
                s, "}"))

\* _range_type = _shift + Suppress("..") + _shift
_range_type(s, i) ==
    setParseAction("_range_type",
                   Then(ThenSup(_shift(s, i), s, ".."), "_shift", s))

\* _array_type = "array" _shift ".." _shift "of" _simple_type_specifier
_array_type(s, i) ==
    setParseAction(
        "_array_type",
        Then(ThenSup(Then(ThenSup(Then(Sup(s, i, "array"), "_shift", s),
                                  s, ".."),
                          "_shift", s),
                     s, "of"),
             "_simple_type_specifier", s))

\* _simple_type_specifier <<= _boolean_type | _word_type | _enum_type
\*                          | _array_type | _range_type
_simple_type_specifier(s, i) ==
    MatchFirst(
        setParseAction("_boolean_type", Lit(s, i, "boolean")),
        MatchFirst(_word_type(s, i),
                   MatchFirst(_enum_type(s, i),
                              MatchFirst(_array_type(s, i),
                                         _range_type(s, i)))))

\* Suppress("(") + Optional(delimitedList(simple_expression))
\* + Suppress(")"), the optional end of _module_type_specifier
_module_type_args(s, i) ==
    ThenSup(ThenOptional(Sup(s, i, "("), "delimitedList(simple_expression)",
                         s),
            s, ")")

\* _module_type_specifier; its action compares t[0] with "process": a str
\* there is the keyword, an Identifier never equals it
_module_type_specifier(s, i) ==
    setParseAction(
        "_module_type_specifier",
        ThenOptional(Then(Optional(Lit(s, i, "process"), i), "identifier", s),
                     "_module_type_args", s))

\* type_identifier = _simple_type_specifier | _module_type_specifier
type_identifier(s, i) ==
    MatchFirst(_simple_type_specifier(s, i), _module_type_specifier(s, i))


(***************************************************************************)
(* Sections.                                                               *)
(***************************************************************************)
\* ModuleMetaClass._sections: the kind of every section
SectionNames ==
    {"VAR", "IVAR", "FROZENVAR", "DEFINE", "ASSIGN", "CONSTANTS", "TRANS",
     "INIT", "INVAR", "FAIRNESS", "JUSTICE", "COMPASSION"}
_sections(name) ==
    IF name \in {"VAR", "IVAR", "FROZENVAR", "DEFINE", "ASSIGN"}
    THEN "mapping"
    ELSE IF name = "CONSTANTS" THEN "enumeration"
    ELSE "bodies"

\* the Section subclass of every section name
SectionClass(name) ==
    CASE name = "VAR" -> "Variables"
      [] name = "IVAR" -> "InputVariables"
      [] name = "FROZENVAR" -> "FrozenVariables"
      [] name = "DEFINE" -> "Defines"
      [] name = "ASSIGN" -> "Assigns"
      [] name = "CONSTANTS" -> "Constants"
      [] name = "TRANS" -> "Trans"
      [] name = "INIT" -> "SInit"
      [] name = "INVAR" -> "Invar"
      [] name = "FAIRNESS" -> "Fairness"
      [] name = "JUSTICE" -> "Justice"
      [] name = "COMPASSION" -> "Compassion"

Section(name, body) ==
    [type |-> SectionClass(name), name |-> name, body |-> body,
     source |-> NoSource]

\* Literal("init" or "next") + Suppress("(") + _complex_identifier
\* + Suppress(")")
AssignTarget(lit, s, i) ==
    ThenSup(Then(ThenSup(Lit(s, i, lit), s, "("), "_complex_identifier", s),
            s, ")")

\* _assign_identifier, with its action
_assign_identifier(s, i) ==
    setParseAction("_assign_identifier",
                   MatchFirst(AssignTarget("init", s, i),
                              MatchFirst(AssignTarget("next", s, i),
                                         _complex_identifier(s, i))))

\* key + Suppress(sep) + value + Suppress(";"): _var_declaration,
\* _ivar_declaration, _frozenvar_declaration, _define_declaration, _assign
_declaration(keyprod, sep, valprod, s, i) ==
    ThenSup(Then(ThenSup(Parse(keyprod, s, i), s, sep), valprod, s), s, ";")

_var_section_body(s, i) == MappingBody(OneOrMore("_var_declaration", s, i))
_ivar_section_body(s, i) == MappingBody(OneOrMore("_ivar_declaration", s, i))
_frozenvar_section_body(s, i) ==
    MappingBody(OneOrMore("_frozenvar_declaration", s, i))
_define_section_body(s, i) ==
    MappingBody(OneOrMore("_define_declaration", s, i))
_assign_constraint_body(s, i) == MappingBody(OneOrMore("_assign", s, i))

\* delimitedList(identifier) + Suppress(";"); the list that its action
\* list(t) returns becomes the token list again
_constants_section_body(s, i) ==
    ThenSup(DelimitedList("identifier", s, i), s, ";")

\* expression + Optional(Suppress(";")), action list(t): the bodies of
\* TRANS, INIT, INVAR, FAIRNESS and JUSTICE
ConstraintBody(prod, s, i) == ThenOptionalSup(Parse(prod, s, i), s, ";")

\* its action [t[0], t[1]] returns the two tokens
_compassion_constraint_body(s, i) ==
    ThenOptionalSup(
        ThenSup(Then(ThenSup(Then(Sup(s, i, "("), "simple_expression", s),
                             s, ","),
                     "simple_expression", s),
                s, ")"),
        s, ";")

\* the body production of every section
SectionBodyParser(name) ==
    CASE name = "VAR" -> "_var_section_body"
      [] name = "IVAR" -> "_ivar_section_body"
      [] name = "FROZENVAR" -> "_frozenvar_section_body"
      [] name = "DEFINE" -> "_define_section_body"
      [] name = "ASSIGN" -> "_assign_constraint_body"
      [] name = "CONSTANTS" -> "_constants_section_body"
      [] name = "TRANS" -> "_trans_constraint_body"
      [] name = "INIT" -> "_init_constraint_body"
      [] name = "INVAR" -> "_invar_constraint_body"
      [] name = "FAIRNESS" -> "_fairness_constraint_body"
      [] name = "JUSTICE" -> "_justice_constraint_body"
      [] name = "COMPASSION" -> "_compassion_constraint_body"

\* the action of the section name on its body matched as b: Cls(t[0]) for
\* a mapping section and Cls(list(t)) for a listing section
SectionAction(name, b) ==
    IF b.ok
    THEN Matched(b.pos,
                 <<Section(name, IF _sections(name) = "mapping"
                                 THEN b.toks[1] ELSE PyList(b.toks))>>)
    ELSE b

\* _module_element: the section whose keyword is the lexeme at i
_module_element(s, i) ==
    IF At(s, i) \notin SectionNames THEN NoMatch
    ELSE SectionAction(s[i], Parse(SectionBodyParser(s[i]), s, i + 1))

(***************************************************************************)
(* Modules: the production module with its action _create_module, and the  *)
(* metaclass that assembles a module from a namespace.  A namespace is a   *)
(* sequence of <<member, value>> in insertion order.  A str that is not    *)
(* one lexeme is [type |-> "text", value], value being its lexemes.        *)
(***************************************************************************)
PyText(toks) == [type |-> "text", value |-> toks]

NsHas(ns, member) == \E i \in 1..Len(ns) : ns[i][1] = member
NsIndex(ns, member) == CHOOSE i \in 1..Len(ns) : ns[i][1] = member
NsGet(ns, member) == ns[NsIndex(ns, member)][2]
NsSet(ns, member, value) ==
    IF NsHas(ns, member)
    THEN [ns EXCEPT ![NsIndex(ns, member)] = <<member, value>>]
    ELSE Append(ns, <<member, value>>)

\* ns[member] = u for the result u of a statement
NsSetResult(ns, member, u) ==
    IF u.exc # "none" THEN u ELSE Returns(NsSet(ns, member, u.val))

RECURSIVE parseAllString(_, _)

\* the key parser and the value parser of a mapping section, as listed in
\* _sections_parsers
KeyParser(section) ==
    IF section = "ASSIGN" THEN "_assign_identifier" ELSE "identifier"
ValueParser(section) ==
    CASE section = "VAR" -> "type_identifier"
      [] section \in {"IVAR", "FROZENVAR", "DEFINE"} -> "_simple_type_specifier"
      [] section = "ASSIGN" -> "simple_expression"

\* x, or its parse when x is a str
ParsedIfStr(parser, x) ==
    IF x.type = "text" THEN parseAllString(parser, x.value) ELSE Returns(x)

\* for key, value in body.items(): parse the strs; res[key] = value
RECURSIVE MappingItems(_, _, _)
MappingItem(section, items, res, key, value) ==
    IF key.exc # "none" THEN key
    ELSE IF value.exc # "none" THEN value
    ELSE MappingItems(section, items, DictSet(res, key.val, value.val))
MappingItems(section, items, res) ==
    IF res.exc # "none" \/ items = <<>> THEN res
    ELSE MappingItem(section, Tail(items), res,
                     ParsedIfStr(KeyParser(section), items[1][1]),
                     ParsedIfStr(ValueParser(section), items[1][2]))

\* for line in body: a str is parsed as a whole section body and merged,
\* anything else is a pair key, value
RECURSIVE MappingLines(_, _, _)
MappingLine(section, lines, res, line) ==
    IF line.exc # "none" THEN line
    ELSE MappingLines(section, lines, update(res.val, line.val))
MappingLines(section, lines, res) ==
    IF res.exc # "none" \/ lines = <<>> THEN res
    ELSE IF lines[1].type = "text"
    THEN MappingLine(section, Tail(lines), res,
                     parseAllString(SectionBodyParser(section), lines[1].value))
    ELSE MappingLines(section, Tail(lines),
                      MappingItems(section,
                                   <<<<lines[1].items[1], lines[1].items[2]>>>>,
                                   res))

\* for expr in body: parse the strs; update(exprs, [expr])
RECURSIVE ListingItems(_, _, _)
ListingItem(section, items, res, expr) ==
    IF expr.exc # "none" THEN expr
    ELSE ListingItems(section, items, update(res.val, PyList(<<expr.val>>)))
ListingItems(section, items, res) ==
    IF res.exc # "none" \/ items = <<>> THEN res
    ELSE ListingItem(section, Tail(items), res,
                     ParsedIfStr(SectionBodyParser(section), items[1]))

_section_internal(section, body) ==
    IF section \notin SectionNames THEN Raises("Exception")
    ELSE IF _sections(section) = "mapping"
    THEN IF body.type = "dict"
         THEN MappingItems(section, body.items, Returns(PyDict(<<>>)))
         ELSE MappingLines(section,
                           IF body.type = "text" THEN <<body>> ELSE body.items,
                           Returns(PyDict(<<>>)))
    ELSE ListingItems(section,
                      IF body.type = "list" THEN body.items ELSE <<body>>,
                      Returns(PyList(<<>>)))

\* a member that names a section: its internal value is stored, or merged
\* into the section that new already holds
SectionMember(new, member, internal) ==
    IF internal.exc # "none" THEN internal
    ELSE IF NsHas(new, member)
    THEN NsSetResult(new, member, update(NsGet(new, member), internal.val))
    ELSE Returns(NsSet(new, member, internal.val))

\* a member that is a declaration: decl.name = member, and
\* new[decl.section][decl] = decl.type
DeclarationMember(new, decl) ==
    NsSetResult(new, decl.section,
                DictSet(Returns(IF NsHas(new, decl.section)
                                THEN NsGet(new, decl.section)
                                ELSE PyDict(<<>>)),
                        decl, decl.dtype))

\* one turn of the loop of ModuleMetaClass.__new__
NewMember(new, member, value) ==
    IF member \in SectionNames
    THEN SectionMember(new, member, _section_internal(member, value))
    ELSE IF value.type \in DeclarationClasses
    THEN DeclarationMember(new, [value EXCEPT !.name = member])
    ELSE Returns(NsSet(new, member, value))

\* the loop of ModuleMetaClass.__new__ over the members of the namespace;
\* acc is [exc, val] with val the new namespace
RECURSIVE NewNamespace(_, _)
NewNamespace(namespace, acc) ==
    IF acc.exc # "none" \/ namespace = <<>> THEN acc
    ELSE NewNamespace(Tail(namespace),
                      NewMember(acc.val, namespace[1][1], namespace[1][2]))

\* type.__new__(cls, name, bases, newnamespace)
NewClass(name, new) ==
    IF new.exc # "none" THEN new
    ELSE Returns([type |-> "Module", name |-> name, namespace |-> new.val,
                  source |-> NoSource])

\* ModuleMetaClass.__new__(cls, name, bases, namespace)
ModuleMetaClass(name, namespace) ==
    NewClass(name, NewNamespace(namespace, Returns(<<>>)))

\* _section_str(section, body) for a section of bodies: for every value of
\* the body a block made of the name of the section and of str(value)
RECURSIVE _section_str(_, _)
_section_str(section, values) ==
    IF values = <<>> THEN <<>>
    ELSE <<section>> \o Str(values[1]) \o _section_str(section, Tail(values))

\* result.members = tuple(newnamespace)
members(module) == [i \in 1..Len(module.namespace) |-> module.namespace[i][1]]

\* one turn of the loop of _create_module
CreateSection(namespace, section) ==
    IF ~NsHas(namespace, section.name)
    THEN Returns(NsSet(namespace, section.name, section.body))
    ELSE NsSetResult(namespace, section.name,
                     update(NsGet(namespace, section.name), section.body))

\* the loop of _create_module over tokens[2:]
RECURSIVE CreateNamespace(_, _)
CreateNamespace(sections, acc) ==
    IF acc.exc # "none" \/ sections = <<>> THEN acc
    ELSE CreateNamespace(Tail(sections), CreateSection(acc.val, sections[1]))

\* the last statement of _create_module
CreateModuleClass(name, namespace) ==
    IF namespace.exc # "none" THEN namespace
    ELSE ModuleMetaClass(Str(name), namespace.val)

\* _create_module(string, location, tokens): tokens[1] raises IndexError
\* when the module production matched a name and nothing else
_create_module(tokens) ==
    IF Len(tokens) < 2 THEN Raises("IndexError")
    ELSE CreateModuleClass(
             tokens[1],
             CreateNamespace(SubSeq(tokens, 3, Len(tokens)),
                             Returns(<<<<"NAME", tokens[1]>>,
                                       <<"ARGS", tokens[2]>>>>)))

\* _module_args = "(" + Optional(Group(delimitedList(identifier))) + ")"
_module_args(s, i) ==
    ThenSup(ThenOptional(Sup(s, i, "("), "Group(delimitedList(identifier))", s),
            s, ")")

\* the production module matched as r, with its action _create_module
ModuleAction(r) ==
    IF r.ok THEN ActionResult(r.pos, _create_module(r.toks)) ELSE r

\* module = "MODULE" + identifier + Optional(_module_args)
\*          + ZeroOrMore(_module_element)
module(s, i) ==
    ModuleAction(Then(ThenOptional(Then(Sup(s, i, "MODULE"), "identifier", s),
                                   "_module_args", s),
                      "ZeroOrMore(_module_element)", s))

(***************************************************************************)
(* The productions by name, and the entry point parseAllString.            *)
(***************************************************************************)
Parse(prod, s, i) ==
    CASE prod = "identifier" -> identifier(s, i)
      [] prod = "_cip" -> _cip(s, i)
      [] prod = "_complex_identifier" -> _complex_identifier(s, i)
      [] prod = "_integer_number" -> _integer_number(s, i)
      [] prod = "_ap" -> _ap(s, i)
      [] prod = "_case_case" -> _case_case(s, i)
      [] prod = "_case_body" -> _case_body(s, i)
      [] prod = "_array" -> _array(s, i)
      [] prod = "_not" -> _not(s, i)
      [] prod = "_concat" -> _concat(s, i)
      [] prod = "_minus" -> _minus(s, i)
      [] prod = "_mult" -> _mult(s, i)
      [] prod = "_add" -> _add(s, i)
      [] prod = "_shift" -> _shift(s, i)
      [] prod = "_set" -> _set(s, i)
      [] prod = "_union" -> _union(s, i)
      [] prod = "_in" -> _in(s, i)
      [] prod = "_comparison" -> _comparison(s, i)
      [] prod = "_and" -> _and(s, i)
      [] prod = "_or" -> _or(s, i)
      [] prod = "? _ite : _ite" ->
            Then(ThenLit(Then(Lit(s, i, "?"), "_ite", s), s, ":"), "_ite", s)
      [] prod = "_ite" -> _ite(s, i)
      [] prod = "_iff" -> _iff(s, i)
      [] prod \in {"_implies", "_basic_expr", "simple_expression",
                   "next_expression"} -> _implies(s, i)
      [] prod = "delimitedList(_basic_expr)" ->
            DelimitedList("_basic_expr", s, i)
      [] prod = "delimitedList(simple_expression)" ->
            DelimitedList("simple_expression", s, i)
      [] prod = "_integer_number | _symbolic_constant" ->
            MatchFirst(_integer_number(s, i), identifier(s, i))
      [] prod = "delimitedList(_integer_number | _symbolic_constant)" ->
            DelimitedList("_integer_number | _symbolic_constant", s, i)
      [] prod = "Group(delimitedList(identifier))" ->
            Group(DelimitedList("identifier", s, i))
      [] prod = "_simple_type_specifier" -> _simple_type_specifier(s, i)
      [] prod = "_module_type_args" -> _module_type_args(s, i)
      [] prod = "type_identifier" -> type_identifier(s, i)
      [] prod = "_assign_identifier" -> _assign_identifier(s, i)
      [] prod = "_var_declaration" ->
            _declaration("identifier", ":", "type_identifier", s, i)
      [] prod \in {"_ivar_declaration", "_frozenvar_declaration"} ->
            _declaration("identifier", ":", "_simple_type_specifier", s, i)
      [] prod = "_define_declaration" ->
            _declaration("identifier", ":=", "simple_expression", s, i)
      [] prod = "_assign" ->
            _declaration("_assign_identifier", ":=", "simple_expression", s, i)
      [] prod = "_var_section_body" -> _var_section_body(s, i)
      [] prod = "_ivar_section_body" -> _ivar_section_body(s, i)
      [] prod = "_frozenvar_section_body" -> _frozenvar_section_body(s, i)
      [] prod = "_define_section_body" -> _define_section_body(s, i)
      [] prod = "_assign_constraint_body" -> _assign_constraint_body(s, i)
      [] prod = "_constants_section_body" -> _constants_section_body(s, i)
      [] prod = "_trans_constraint_body" ->
            ConstraintBody("next_expression", s, i)
      [] prod \in {"_init_constraint_body", "_invar_constraint_body",
                   "_fairness_constraint_body", "_justice_constraint_body"} ->
            ConstraintBody("simple_expression", s, i)
      [] prod = "_compassion_constraint_body" ->
            _compassion_constraint_body(s, i)
      [] prod = "_module_element" -> _module_element(s, i)
      [] prod = "_module_args" -> _module_args(s, i)
      [] prod = "ZeroOrMore(_module_element)" ->
            ZeroOrMore("_module_element", s, i)
      [] prod = "module" -> module(s, i)

\* a defect that C8 must detect: parseAll=False
parseAllFalse(pos, string) == TRUE

\* parseAll=True: the match must end at the end of the text
parseAll(pos, string) == pos = Len(string) + 1

\* hasattr(res[0], "source"): every Element and every module class
HasSource(x) == x.type \notin PythonTypes

\* parser.parseString(string, parseAll=True) for the match res of parser
parseString(res, string) ==
    IF res.ok /\ ~parseAll(res.pos, string) THEN NoMatch ELSE res

\* res[0].source = string if res[0] has a source; return res[0]
ResultWithSource(res, string) ==
    IF ~res.ok THEN Raises(res.exc)
    ELSE IF res.toks = <<>> THEN Raises("IndexError")
    ELSE IF HasSource(res.toks[1])
    THEN Returns([res.toks[1] EXCEPT !.source = string])
    ELSE Returns(res.toks[1])

\* parseAllString(parser, string)
parseAllString(parser, string) ==
    ResultWithSource(parseString(Parse(parser, string, 1), string), string)


(***************************************************************************)
(* The inputs of the operations: texts (sequences of lexemes) for the      *)
(* parser, pairs of nodes for the constructors, namespaces for the module  *)
(* assembler.                                                              *)
(***************************************************************************)
OperatorLexemes == {OpToken(cls) : cls \in BinaryClasses}

\* one name, bare or in parentheses
AtomTexts == {<<n>> : n \in NameSet} \cup {<<"(", n, ")">> : n \in NameSet}

\* x op y
TwoOperandTexts ==
    {<<m, op, n>> : m \in NameSet, n \in NameSet, op \in OperatorLexemes}

\* a op1 b op2 c, bare and with either pair of operands in parentheses
ChainTexts ==
    {<<Names[1], op1, Names[2], op2, Names[3]>> :
        op1 \in OperatorLexemes, op2 \in OperatorLexemes}
LeftGroupedTexts ==
    {<<"(", Names[1], op1, Names[2], ")", op2, Names[3]>> :
        op1 \in OperatorLexemes, op2 \in OperatorLexemes}
RightGroupedTexts ==
    {<<Names[1], op1, "(", Names[2], op2, Names[3], ")">> :
        op1 \in OperatorLexemes, op2 \in OperatorLexemes}

PrefixTexts ==
    UNION {{<<p, n>>, <<p, p, n>>, <<p, "(", n, ")">>,
            <<p, "(", n, "+", Names[2], ")">>, <<p, n, "+", Names[2]>>,
            <<p, n, "&", Names[2]>>, <<p, "(", n, "&", Names[2], ")">>} :
           p \in {"!", "-"}, n \in NameSet}

IteTexts ==
    {<<Names[1], "?", Names[2], ":", Names[3]>>,
     <<"(", Names[1], "?", Names[2], ":", Names[3], ")", "?", Names[1], ":",
       Names[2]>>,
     <<Names[1], "?", Names[2], ":", Names[3], "?", Names[1], ":", Names[2]>>,
     <<Names[1], "?", "(", Names[2], "?", Names[3], ":", Names[1], ")", ":",
       Names[2]>>,
     <<Names[1], "&", Names[2], "?", Names[2], "|", Names[3], ":", Names[3]>>,
     <<Names[1], "<->", Names[2], "?", Names[3], ":", Names[1]>>}

\* case expressions of one and of two entries; a condition may come twice
CaseConditions == {Names[1], "TRUE", "1"}
CaseResults == {"0", "1"}
CaseTexts ==
    {<<"case", c, ":", r, ";", "esac">> :
        c \in CaseConditions, r \in CaseResults}
    \cup {<<"case", c1, ":", r1, ";", c2, ":", r2, ";", "esac">> :
            c1 \in CaseConditions, r1 \in CaseResults,
            c2 \in CaseConditions, r2 \in CaseResults}
    \cup {<<"case", Names[1], ":", "1", ";", "esac", "esac">>,
          <<"case", "esac">>, <<"case", Names[1], ":", "1", "esac">>}

\* conversions, word functions, counts and word constants
FunctionTexts ==
    {<<f, "(", n, ")">> : f \in ConversionTargets, n \in NameSet}
    \cup {<<f, "(", n, ",", k, ")">> :
            f \in {"extend", "resize"}, n \in NameSet, k \in {"1", "2"}}
    \cup {<<"count", "(", n, ")">> : n \in NameSet}
    \cup {<<"count", "(", n, ",", m, ")">> : n \in NameSet, m \in NameSet}
    \cup {<<w>> : w \in WordConstants}
    \cup {<<w, "+", n>> : w \in WordConstants, n \in NameSet}
    \cup {<<"word1", "(", Names[1]>>, <<"extend", "(", Names[1], ")">>,
          <<"count", "(", ")">>, <<"bool">>, <<"!", "bool", "(", Names[1], ")">>}

OtherExpressionTexts ==
    {<<"0", "..", "2">>, <<"{", Names[1], ",", Names[2], "}">>,
     <<Names[1], ".", Names[2]>>, <<"TRUE">>, <<"1">>,
     <<Names[1], "+", "1">>, <<"self">>}

\* a text the grammar matches, followed by one more lexeme
JunkLexemes == {")", ";", Names[1]}
PrefixJunkTexts ==
    {t \o <<j>> :
        t \in {<<Names[1]>>, <<Names[1], "+", Names[2]>>,
               <<"(", Names[1], ")">>, <<"!", Names[1]>>,
               <<Names[1], "?", Names[2], ":", Names[3]>>},
        j \in JunkLexemes}

\* an operator that lacks its right operand
TruncatedTexts == {<<Names[1], op>> : op \in OperatorLexemes}

ExpressionTexts ==
    AtomTexts \cup TwoOperandTexts \cup ChainTexts \cup LeftGroupedTexts
    \cup RightGroupedTexts \cup PrefixTexts \cup IteTexts
    \cup OtherExpressionTexts \cup PrefixJunkTexts \cup TruncatedTexts
    \cup CaseTexts \cup FunctionTexts

NextExpressionTexts ==
    {<<"next", "(", n, ")", "=", m>> : n \in NameSet, m \in NameSet}
    \cup {<<"next", "(", n, ")", ";">> : n \in NameSet}

IdentifierTexts ==
    {<<n>> : n \in NameSet} \cup {<<n, m>> : n \in NameSet, m \in NameSet}
    \cup {<<n, ".", m>> : n \in NameSet, m \in NameSet}

TypeTexts ==
    LET valid == {<<"boolean">>, <<"word", "[", "2", "]">>,
                  <<"unsigned", "word", "[", "2", "]">>,
                  <<"0", "..", "2">>, <<"{", Names[1], ",", Names[2], "}">>,
                  <<"array", "0", "..", "1", "of", "boolean">>,
                  <<Names[1]>>, <<Names[1], "(", Names[2], ")">>,
                  <<"process", Names[1]>>}
    IN valid \cup {t \o <<j>> : t \in valid, j \in {";", ")"}}

\* whole sections; the last four lack their terminator or their body
SectionTexts ==
    <<<<"VAR", Names[1], ":", "0", "..", "2", ";">>,
      <<"VAR", Names[2], ":", "boolean", ";">>,
      <<"VAR", Names[1], ":", "word", "[", "2", "]", ";">>,
      <<"VAR", Names[3], ":", "boolean", ";", Names[1], ":", "boolean", ";">>,
      <<"IVAR", Names[1], ":", "boolean", ";">>,
      <<"DEFINE", Names[3], ":=", Names[1], "&", Names[2], ";">>,
      <<"INIT", Names[1]>>,
      <<"INIT", Names[2], ";">>,
      <<"TRANS", "next", "(", Names[1], ")", "=", Names[2]>>,
      <<"CONSTANTS", Names[1], ",", Names[2], ";">>>>
UnterminatedSectionTexts ==
    {<<"VAR", Names[1], ":", "boolean">>, <<"VAR">>,
     <<"DEFINE", Names[3], ":=", Names[1]>>,
     <<"CONSTANTS", Names[1], ",", Names[2]>>}
SectionTextSet == {SectionTexts[k] : k \in DOMAIN SectionTexts}

\* module headers: no argument list, an empty one, one argument
Headers ==
    {<<"MODULE", Names[1]>>, <<"MODULE", Names[1], "(", ")">>,
     <<"MODULE", Names[1], "(", Names[2], ")">>}
\* compassion constraints, and modules of one and of two of them
CompassionTexts ==
    {<<"COMPASSION", "(", p, ",", q, ")">> : p \in NameSet, q \in NameSet}
    \cup {<<"COMPASSION", "(", Names[1], ",", Names[2], ")", ";">>}
ModuleTexts ==
    {h \o s1 \o s2 :
        h \in Headers, s1 \in SectionTextSet \cup {<<>>},
        s2 \in SectionTextSet \cup UnterminatedSectionTexts \cup {<<>>}}
    \cup {<<"MODULE", Names[1], "(", Names[2], ")">> \o c1 \o c2 :
            c1 \in CompassionTexts, c2 \in CompassionTexts \cup {<<>>}}

\* self, the word selfish, and self in a complex identifier
SelfTexts ==
    {<<"self">>, <<"self", Ish>>, <<"self", ".", Names[1]>>,
     <<Names[1], ".", "self">>, <<"self", Ish, ".", Names[1]>>}

ParseInputs ==
    ({"simple_expression"} \X ExpressionTexts)
    \cup ({"_complex_identifier", "identifier", "simple_expression"}
          \X SelfTexts)
    \cup ({"next_expression"} \X NextExpressionTexts)
    \cup ({"identifier"} \X IdentifierTexts)
    \cup ({"type_identifier"} \X TypeTexts)
    \cup ({"_module_element"} \X (SectionTextSet \cup UnterminatedSectionTexts))
    \cup ({"module"} \X ModuleTexts)

\* operands of the constructed nodes
Leaves == {Identifier(Names[1]), Identifier(Names[2])}
Operands ==
    Leaves \cup {Binary("Add", Identifier(Names[1]), Identifier(Names[2])),
                 Binary("Add", Identifier(Names[2]), Identifier(Names[1]))}

\* pairs of nodes of one class, and a few of different classes
NodePairs ==
    {<<Binary(cls, a, b), Binary(cls, c, d)>> :
        cls \in BinaryClasses, a \in Operands, b \in Operands,
        c \in Operands, d \in Operands}
    \cup {<<Unary(cls, a), Unary(cls, c)>> :
            cls \in UnaryClasses \cup FunctionClasses,
            a \in Operands, c \in Operands}
    \cup {<<Ite(a, b, c), Ite(d, e, f)>> :
            a \in Leaves, b \in Leaves, c \in Leaves,
            d \in Leaves, e \in Leaves, f \in Leaves}
    \cup {<<Case(<<<<a, b>>>>), Case(<<<<c, d>>>>)>> :
            a \in Leaves, b \in Leaves, c \in Leaves, d \in Leaves}
    \cup {<<Set(<<a, b>>), Set(<<c, d>>)>> :
            a \in Leaves, b \in Leaves, c \in Leaves, d \in Leaves}
    \cup {<<Range(PyInt(a), PyInt(b)), Range(PyInt(c), PyInt(d))>> :
            a \in 0..1, b \in 0..1, c \in 0..1, d \in 0..1}
    \cup {<<a, c>> :
            a \in Leaves \cup {ComplexIdentifier(<<l>>) : l \in Leaves}
                  \cup {Boolean("TRUE"), Boolean("FALSE")},
            c \in Leaves \cup {ComplexIdentifier(<<l>>) : l \in Leaves}
                  \cup {Boolean("TRUE"), Boolean("FALSE")}}
    \cup {<<Binary("Add", a, b), Binary("Sub", a, b)>> :
            a \in Leaves, b \in Leaves}

\* the types given to declarations and to the values of a VAR mapping
DeclaredTypes == {TBoolean, TRange(PyInt(0), PyInt(2))}
MappingValues == {TBoolean, PyText(<<"0", "..", "2">>)}

\* the texts given as the value of a key of a mapping section, and the
\* separator of key and value in the text of such a section
ValueTexts == {<<"boolean">>, <<Names[1], "+", "1">>}
Separator(section) == IF section \in {"DEFINE", "ASSIGN"} THEN ":=" ELSE ":"

\* members of a class body that name no section of _sections
UnknownSections == {"SPEC", "LTLSPEC"}

\* namespaces of class bodies: two declarations; a declaration and a VAR
\* mapping, in both orders; listings and lines; a key that does not parse;
\* a member that names no section, alone and after an INIT section
Namespaces ==
    {<<<<p[1], Declaration(c1, t1)>>, <<p[2], Declaration(c2, t2)>>>> :
        p \in {q \in NameSet \X NameSet : q[1] # q[2]},
        c1 \in {"Var", "IVar"}, c2 \in {"Var", "IVar"},
        t1 \in DeclaredTypes, t2 \in DeclaredTypes}
    \cup {<<<<m, Declaration("Var", t1)>>,
            <<"VAR", PyDict(<<<<PyText(<<n>>), v>>>>)>>>> :
            m \in NameSet, n \in NameSet, t1 \in DeclaredTypes,
            v \in MappingValues}
    \cup {<<<<"VAR", PyDict(<<<<PyText(<<n>>), v>>>>)>>,
            <<m, Declaration("Var", t1)>>>> :
            m \in NameSet, n \in NameSet, t1 \in DeclaredTypes,
            v \in MappingValues}
    \cup {<<<<"VAR", PyDict(<<<<PyText(<<m>>), v>>, <<Identifier(n), w>>>>)>>>> :
            m \in NameSet, n \in NameSet, v \in MappingValues,
            w \in MappingValues}
    \cup {<<<<"NAME", Identifier(Names[2])>>,
            <<"INIT", PyList(<<PyText(<<m>>), PyText(<<n, "&", m>>)>>)>>,
            <<"TRANS", PyText(<<"next", "(", m, ")", "=", n>>)>>>> :
            m \in NameSet, n \in NameSet}
    \cup {<<<<"VAR", PyList(<<PyText(<<m, ":", "boolean", ";">>),
                              PyList(<<PyText(<<n>>), TBoolean>>)>>)>>,
            <<"CONSTANTS", PyText(<<m, ",", n, ";">>)>>>> :
            m \in NameSet, n \in NameSet}
    \cup {<<<<"VAR", PyDict(<<<<PyText(<<m, n>>), TBoolean>>>>)>>>> :
            m \in NameSet, n \in NameSet}
    \cup {<<<<u, PyList(<<PyText(<<m>>)>>)>>>> :
            u \in UnknownSections, m \in NameSet}
    \cup {<<<<"INIT", PyList(<<PyText(<<m>>)>>)>>, <<u, PyText(<<n>>)>>>> :
            u \in UnknownSections, m \in NameSet, n \in NameSet}
    \cup {<<<<s, PyDict(<<<<PyText(<<n>>), PyText(v)>>>>)>>>> :
            s \in {"IVAR", "DEFINE", "ASSIGN"}, n \in NameSet,
            v \in ValueTexts}
    \cup {<<<<s, PyText(<<n, Separator(s)>> \o v \o <<";">>)>>>> :
            s \in {"IVAR", "DEFINE", "ASSIGN"}, n \in NameSet,
            v \in ValueTexts}

(***************************************************************************)
(* The loading of a model by pynusmv.glob, as testGlobals.py exercises it. *)
(* The stages done are the flags cmps; each function first tests the      *)
(* flags and raises, or performs its stage.                                *)
(***************************************************************************)
Stages ==
    {"read_model", "flatten_hrc", "encode_variables", "build_flat_model",
     "build_model"}
NoStage == [stage \in Stages |-> FALSE]

\* the models of tests/pynusmv/models that the tests load, and the file
\* that does not exist
Models == {"counters", "syntax-error", "semantics-error", "no-model"}

\* the cap of the counters of performed stages
MaxPerformed == 2

\* a defect that C20 must detect: load without the test of the model read
load_unchecked(c, m) ==
    IF m = "no-model" THEN "IOError"
    ELSE IF m = "syntax-error" THEN "NuSMVParsingError"
    ELSE "none"

\* load, load_from_file: the exception raised, "none" if none
load(c, m) ==
    IF c["read_model"] THEN "NuSMVModelAlreadyReadError"
    ELSE IF m = "no-model" THEN "IOError"
    ELSE IF m = "syntax-error" THEN "NuSMVParsingError"
    ELSE "none"

flatten_hierarchy(c, m) ==
    IF ~c["read_model"] THEN "NuSMVNoReadModelError"
    ELSE IF c["flatten_hrc"] THEN "NuSMVModelAlreadyFlattenedError"
    ELSE IF m = "semantics-error" THEN "NuSMVCannotFlattenError"
    ELSE "none"

encode_variables(c) ==
    IF ~c["flatten_hrc"] THEN "NuSMVNeedFlatHierarchyError"
    ELSE IF c["encode_variables"] THEN "NuSMVModelAlreadyEncodedError"
    ELSE "none"

\* bdd_encoding, prop_database, flat_hierarchy
need_flat_hierarchy(c) ==
    IF ~c["flatten_hrc"] THEN "NuSMVNeedFlatHierarchyError" ELSE "none"

build_flat_model(c) ==
    IF ~c["flatten_hrc"] THEN "NuSMVNeedFlatHierarchyError"
    ELSE IF c["build_flat_model"] THEN "NuSMVFlatModelAlreadyBuiltError"
    ELSE "none"

\* a defect that C19 must detect: the encoding tested before the flat model
build_model_encoding_first(c) ==
    IF ~c["encode_variables"] THEN "NuSMVNeedVariablesEncodedError"
    ELSE IF ~c["build_flat_model"] THEN "NuSMVNeedFlatModelError"
    ELSE IF c["build_model"] THEN "NuSMVModelAlreadyBuiltError"
    ELSE "none"

build_model(c) ==
    IF ~c["build_flat_model"] THEN "NuSMVNeedFlatModelError"
    ELSE IF ~c["encode_variables"] THEN "NuSMVNeedVariablesEncodedError"
    ELSE IF c["build_model"] THEN "NuSMVModelAlreadyBuiltError"
    ELSE "none"

\* compute_model: the stages not yet done are performed, in their order
compute_model(c, m) ==
    IF ~c["read_model"] THEN "NuSMVNoReadModelError"
    ELSE IF ~c["flatten_hrc"] /\ m = "semantics-error"
    THEN "NuSMVCannotFlattenError"
    ELSE "none"

(***************************************************************************)
(* The witnesses of tools/ctlk/explain.py on an explicit FSM.  A state and *)
(* an input are names, a BDD of states is the set of its states, the FSM   *)
(* is the set of its transitions <<s, i, t>>.  To pick one state or one    *)
(* input of a BDD is to take any of its members; the pick raises on the    *)
(* false BDD.  An outcome is [exc, val]; a call is the set of its possible *)
(* outcomes.                                                               *)
(***************************************************************************)
FsmStates == {"s1", "s2", "s3"}
FsmInputs == {"i1", "i2"}

\* the transitions an FSM is made of
EdgePool ==
    {<<"s1", "i1", "s2">>, <<"s1", "i2", "s2">>, <<"s2", "i1", "s3">>,
     <<"s3", "i1", "s3">>, <<"s3", "i2", "s1">>, <<"s1", "i1", "s3">>}
Fsms == SUBSET EdgePool

\* BddFsm.pre(states), BddFsm.post(states)
pre(fsm, states) == {e[1] : e \in {d \in fsm : d[3] \in states}}
post(fsm, states) == {e[3] : e \in {d \in fsm : d[1] \in states}}

\* a defect that C21 must detect: every input, allowed or not
any_inputs(fsm, current, next) == FsmInputs

\* BddFsm.get_inputs_between_states(current, next)
get_inputs_between_states(fsm, current, next) ==
    {e[2] : e \in {d \in fsm : d[1] = current /\ d[3] = next}}

\* the outcomes of a call
PickingError == [exc |-> "NuSMVBddPickingError", val |-> <<>>]
Diverges == [exc |-> "diverges", val |-> <<>>]
Explained(val) == [exc |-> "none", val |-> val]
NotExplained == [exc |-> "unset", val |-> <<>>]

\* eval.ex, eval.eu and eval.eg: the states with a successor in p, the
\* least fixpoint of Z = q | (p & pre(Z)), the greatest of Z = p & pre(Z)
ex(fsm, p) == pre(fsm, p)
RECURSIVE EuFixpoint(_, _, _, _)
EuFixpoint(fsm, p, q, Z) ==
    IF q \cup (p \cap pre(fsm, Z)) = Z THEN Z
    ELSE EuFixpoint(fsm, p, q, q \cup (p \cap pre(fsm, Z)))
eu(fsm, p, q) == EuFixpoint(fsm, p, q, {})
RECURSIVE EgFixpoint(_, _, _)
EgFixpoint(fsm, p, Z) ==
    IF p \cap pre(fsm, Z) = Z THEN Z
    ELSE EgFixpoint(fsm, p, p \cap pre(fsm, Z))
eg(fsm, p) == EgFixpoint(fsm, p, FsmStates)

\* funct = lambda Z: (q | (p & fsm.pre(Z)))
funct(fsm, p, q, Z) == q \cup (p \cap pre(fsm, Z))

\* the while loop of explain_eu from new and paths: the list paths when
\* state is in new; <<>> when new stops growing without state, where the
\* loop never ends
RECURSIVE EuWhile(_, _, _, _, _, _)
EuWhile(fsm, state, p, q, new, paths) ==
    IF state \in new THEN paths
    ELSE IF funct(fsm, p, q, new) = new THEN <<>>
    ELSE EuWhile(fsm, state, p, q, funct(fsm, p, q, new),
                 Append(paths, funct(fsm, p, q, new) \ new))

\* the for loop of explain_eu over paths[::-1] from s and path: layers are
\* the BDDs not yet visited, the last of them the next one
RECURSIVE EuFor(_, _, _, _)
EuForInputs(fsm, layers, s, sp, path) ==
    IF get_inputs_between_states(fsm, s, sp) = {} THEN {PickingError}
    ELSE UNION {EuFor(fsm, layers, sp, path \o <<i, sp>>) :
                   i \in get_inputs_between_states(fsm, s, sp)}
EuFor(fsm, layers, s, path) ==
    IF layers = <<>> THEN {Explained(path)}
    ELSE IF post(fsm, {s}) \cap layers[Len(layers)] = {} THEN {PickingError}
    ELSE UNION {EuForInputs(fsm, SubSeq(layers, 1, Len(layers) - 1), s, sp,
                            path) :
                   sp \in post(fsm, {s}) \cap layers[Len(layers)]}

\* paths = paths[:-1], then the for loop
EuPath(fsm, state, paths) ==
    IF paths = <<>> THEN {Diverges}
    ELSE EuFor(fsm, SubSeq(paths, 1, Len(paths) - 1), state, <<state>>)

\* explain_eu(fsm, state, p, q)
explain_eu(fsm, state, p, q) ==
    EuPath(fsm, state,
           EuWhile(fsm, state, p, q, funct(fsm, p, q, {}),
                   <<funct(fsm, p, q, {})>>))

\* explain_ex(fsm, state, p)
ExInputs(fsm, state, sp) ==
    IF get_inputs_between_states(fsm, state, sp) = {} THEN {PickingError}
    ELSE {Explained(<<state, i, sp>>) :
             i \in get_inputs_between_states(fsm, state, sp)}
explain_ex(fsm, state, p) ==
    IF post(fsm, {state}) \cap p = {} THEN {PickingError}
    ELSE UNION {ExInputs(fsm, state, sp) : sp \in post(fsm, {state}) \cap p}

\* the condition of the while loop of explain_eg:
\* (path[-1] & ex(fsm, eu(fsm, allstates, path[-1]))).is_false()
Last(path) == path[Len(path)]
CannotReachItself(fsm, allstates, path) ==
    Last(path) \notin ex(fsm, eu(fsm, allstates, {Last(path)}))

\* fs = tuple(path) + first[1:] + second[1:];
\* return (fs[:-2], (fs[-2], fs[-1]))
EgReturn(fs) ==
    Explained(<<SubSeq(fs, 1, Len(fs) - 2), <<fs[Len(fs) - 1], fs[Len(fs)]>>>>)

\* the end of explain_eg after its loop: first = explain_ex(...),
\* second = explain_eu(...)
EgSecond(path, first, second) ==
    IF second.exc # "none" THEN second
    ELSE EgReturn(path \o Tail(first.val) \o Tail(second.val))
EgFirst(fsm, allstates, path, first) ==
    IF first.exc # "none" THEN {first}
    ELSE {EgSecond(path, first, second) :
             second \in explain_eu(fsm, first.val[3], allstates,
                                   {Last(path)})}
EgAfterLoop(fsm, allstates, path) ==
    UNION {EgFirst(fsm, allstates, path, first) :
              first \in explain_ex(fsm, Last(path),
                                   eu(fsm, allstates, {Last(path)}))}

(***************************************************************************)
(* ModuleMetaClass._trim.  A str is the sequence of its characters; the    *)
(* characters are the space, the tabulation, the line feed and a letter.   *)
(***************************************************************************)
TabSize == 8
MaxSize == 999

Spaces(n) == [k \in 1..n |-> " "]

\* str.expandtabs(): col is the column modulo TabSize
RECURSIVE ExpandTabsFrom(_, _)
ExpandTabsFrom(s, col) ==
    IF s = <<>> THEN <<>>
    ELSE IF s[1] = "\t"
    THEN Spaces(TabSize - col) \o ExpandTabsFrom(Tail(s), 0)
    ELSE IF s[1] = "\n" THEN <<"\n">> \o ExpandTabsFrom(Tail(s), 0)
    ELSE <<s[1]>> \o ExpandTabsFrom(Tail(s), (col + 1) % TabSize)
expandtabs(s) == ExpandTabsFrom(s, 0)

\* str.splitlines(): a line feed ends a line; no line after the last one
LineEnd(s) ==
    IF \E k \in 1..Len(s) : s[k] = "\n"
    THEN CHOOSE k \in 1..Len(s) :
             s[k] = "\n" /\ \A j \in 1..(k - 1) : s[j] # "\n"
    ELSE 0
RECURSIVE splitlines(_)
splitlines(s) ==
    IF s = <<>> THEN <<>>
    ELSE IF LineEnd(s) = 0 THEN <<s>>
    ELSE <<SubSeq(s, 1, LineEnd(s) - 1)>>
         \o splitlines(SubSeq(s, LineEnd(s) + 1, Len(s)))

\* str.lstrip(), str.rstrip(), str.strip() of a line without tabulations
RECURSIVE lstrip(_)
lstrip(line) ==
    IF line # <<>> /\ line[1] = " " THEN lstrip(Tail(line)) ELSE line
RECURSIVE rstrip(_)
rstrip(line) ==
    IF line # <<>> /\ line[Len(line)] = " "
    THEN rstrip(SubSeq(line, 1, Len(line) - 1))
    ELSE line
strip(line) == rstrip(lstrip(line))

\* the loop that determines indent over lines[1:], from indent
RECURSIVE MinimumIndentation(_, _)
LineIndentation(line, indent) ==
    IF lstrip(line) # <<>> /\ Len(line) - Len(lstrip(line)) < indent
    THEN Len(line) - Len(lstrip(line))
    ELSE indent
MinimumIndentation(lines, indent) ==
    IF lines = <<>> THEN indent
    ELSE MinimumIndentation(Tail(lines), LineIndentation(lines[1], indent))

\* a defect that C24 must detect: the indentation of the lines is kept
KeepIndentation(lines, indent) ==
    <<strip(lines[1])>>
    \o (IF indent < MaxSize
        THEN [j \in 1..(Len(lines) - 1) |-> rstrip(lines[j + 1])]
        ELSE <<>>)

\* trimmed = [lines[0].strip()], then line[indent:].rstrip() for the others
RemoveIndentation(lines, indent) ==
    <<strip(lines[1])>>
    \o (IF indent < MaxSize
        THEN [j \in 1..(Len(lines) - 1) |->
                 rstrip(SubSeq(lines[j + 1], indent + 1, Len(lines[j + 1])))]
        ELSE <<>>)

\* while trimmed and not trimmed[-1]: trimmed.pop(), and the same at the
\* front
RECURSIVE PopTrailing(_)
PopTrailing(trimmed) ==
    IF trimmed # <<>> /\ trimmed[Len(trimmed)] = <<>>
    THEN PopTrailing(SubSeq(trimmed, 1, Len(trimmed) - 1))
    ELSE trimmed
RECURSIVE PopLeading(_)
PopLeading(trimmed) ==
    IF trimmed # <<>> /\ trimmed[1] = <<>> THEN PopLeading(Tail(trimmed))
    ELSE trimmed

\* '\n'.join(indentation + line for line in trimmed)
RECURSIVE JoinLines(_, _)
JoinLines(indentation, trimmed) ==
    IF trimmed = <<>> THEN <<>>
    ELSE IF Len(trimmed) = 1 THEN indentation \o trimmed[1]
    ELSE indentation \o trimmed[1] \o <<"\n">>
         \o JoinLines(indentation, Tail(trimmed))

\* _trim(string, indentation) from lines = string.expandtabs().splitlines()
TrimLines(lines, indentation) ==
    JoinLines(indentation,
              PopLeading(PopTrailing(
                  RemoveIndentation(lines,
                                    MinimumIndentation(Tail(lines), MaxSize)))))
_trim(string, indentation) ==
    IF string = <<>> THEN <<>>
    ELSE TrimLines(splitlines(expandtabs(string)), indentation)

\* the texts and the indentations given to _trim
MaxText == 5
Characters == {" ", "\t", "\n", "a"}
TrimTexts == UNION {[1..n -> Characters] : n \in 0..MaxText}
Indentations == {<<>>, <<" ", " ">>}

(***************************************************************************)
(* The state machine: a client that parses a text, clears the source of    *)
(* the result, renders it, parses the rendered text again and compares;    *)
(* that constructs two nodes, compares and hashes them; that assembles a   *)
(* module from a namespace.                                                *)
(***************************************************************************)
VARIABLES
    pc,       \* the operation done last
    parser,   \* the production given to parseAllString, "" if none
    text,     \* the text given to parseAllString
    x,        \* the result [exc, val] of the parse or of the construction
    y,        \* the second node: constructed, or parsed from the rendering
    out,      \* the rendering of x
    result,   \* x.equals(y): "T", "F", "E" (raised), "-" before the call
    hx,       \* hash(x)
    hy,       \* hash(y)
    decls,    \* the Declaration objects made so far, in the order made
    read,     \* the object and the attribute of the last getattr
    session,  \* whether init_nusmv was called and deinit_nusmv was not
    model,    \* the model that load read, "none" before
    cmps,     \* the stages done on the model, by stage
    call,     \* the last call of pynusmv.glob: name, exception, parity
    performed, \* how often each stage was performed since init_nusmv
    query,    \* the call of explain_eu or explain_eg: op, fsm, state, p, q
    explanation, \* its outcome [exc, val]; val is the path while it runs
    indentation, \* the indentation given to _trim
    again     \* _trim of the result of _trim

corevars == <<pc, parser, text, x, y, out, result, hx, hy>>
declvars == <<decls, read>>
globvars == <<session, model, cmps, call, performed>>
explvars == <<query, explanation>>
trimvars == <<indentation, again>>
vars ==
    <<pc, parser, text, x, y, out, result, hx, hy, decls, read, session,
      model, cmps, call, performed, query, explanation, indentation, again>>

Unset == [exc |-> "unset", val |-> NoNode]
NoHash == [exc |-> "unset", val |-> 0]
NoRead == [obj |-> 0, attr |-> ""]
NoCall == [name |-> "", exc |-> "none", seq |-> 0]
NoQuery == [op |-> "", fsm |-> {}, state |-> "", p |-> {}, q |-> {}]

\* the number of Declaration objects, and the attributes read from them
MaxDeclarations == 2
Attributes == {"name", "type", "section", "width"}

Init ==
    /\ pc = "idle"
    /\ parser = ""
    /\ text = <<>>
    /\ x = Unset
    /\ y = Unset
    /\ out = <<>>
    /\ result = "-"
    /\ hx = NoHash
    /\ hy = NoHash
    /\ decls = <<>>
    /\ read = NoRead
    /\ session = FALSE
    /\ model = "none"
    /\ cmps = NoStage
    /\ call = NoCall
    /\ performed = [stage \in Stages |-> 0]
    /\ query = NoQuery
    /\ explanation = NotExplained
    /\ indentation = <<>>
    /\ again = <<>>

\* x = parseAllString(prod, t)
ParseAllString(prod, t) ==
    /\ pc = "idle"
    /\ pc' = "parsed"
    /\ parser' = prod
    /\ text' = t
    /\ x' = parseAllString(prod, t)
    /\ UNCHANGED <<y, out, result, hx, hy>>
    /\ UNCHANGED <<declvars, globvars, explvars, trimvars>>

\* x.source = None
ClearSource ==
    /\ pc = "parsed"
    /\ x.exc = "none"
    /\ HasSource(x.val)
    /\ pc' = "cleared"
    /\ x' = Returns([x.val EXCEPT !.source = NoSource])
    /\ UNCHANGED <<parser, text, y, out, result, hx, hy>>
    /\ UNCHANGED <<declvars, globvars, explvars, trimvars>>

\* the values whose text the model generates: a module and a section are
\* rendered from their source only
Renderable(n) ==
    \/ n.type \in {"int", "str"}
    \/ /\ HasSource(n)
       /\ n.source # NoSource \/ n.type \notin SectionClasses \cup {"Module"}

\* out = str(x)
Render ==
    /\ pc \in {"parsed", "cleared", "constructed"}
    /\ x.exc = "none"
    /\ Renderable(x.val)
    /\ pc' = "rendered"
    /\ out' = Str(x.val)
    /\ UNCHANGED <<parser, text, x, y, result, hx, hy>>
    /\ UNCHANGED <<declvars, globvars, explvars, trimvars>>

\* y = parseAllString(parser, str(x)) for an x without source
Reparse ==
    /\ pc = "rendered"
    /\ parser # ""
    /\ HasSource(x.val)
    /\ x.val.source = NoSource
    /\ pc' = "reparsed"
    /\ y' = parseAllString(parser, out)
    /\ UNCHANGED <<parser, text, x, out, result, hx, hy>>
    /\ UNCHANGED <<declvars, globvars, explvars, trimvars>>

\* x, y = two nodes built by the constructors
Construct(pair) ==
    /\ pc = "idle"
    /\ pc' = "constructed"
    /\ x' = Returns(pair[1])
    /\ y' = Returns(pair[2])
    /\ UNCHANGED <<parser, text, out, result, hx, hy>>
    /\ UNCHANGED <<declvars, globvars, explvars, trimvars>>

\* result = x.equals(y)
Equals ==
    /\ pc \in {"constructed", "reparsed"}
    /\ y.exc = "none"
    /\ pc' = "compared"
    /\ result' = equals(x.val, y.val)
    /\ UNCHANGED <<parser, text, x, y, out, hx, hy>>
    /\ UNCHANGED <<declvars, globvars, explvars, trimvars>>

\* hx, hy = hash(x), hash(y)
HashNodes ==
    /\ pc = "compared"
    /\ IsExpression(x.val)
    /\ pc' = "hashed"
    /\ hx' = Hash(x.val)
    /\ hy' = Hash(y.val)
    /\ UNCHANGED <<parser, text, x, y, out, result>>
    /\ UNCHANGED <<declvars, globvars, explvars, trimvars>>

\* class <name>(Module): <namespace>
NewModule(namespace) ==
    /\ pc = "idle"
    /\ pc' = "assembled"
    /\ x' = ModuleMetaClass(<<Names[1]>>, namespace)
    /\ y' = Returns(PyList(namespace))
    /\ UNCHANGED <<parser, text, out, result, hx, hy>>
    /\ UNCHANGED <<declvars, globvars, explvars, trimvars>>

\* the class bodies that bind declarations: one or two members, each a
\* declaration object of its own
ClassBodies ==
    {<<<<m, 1>>>> : m \in NameSet} \cup {<<<<m, 2>>>> : m \in NameSet}
    \cup {<<<<p[1], 1>>, <<p[2], 2>>>> :
            p \in {q \in NameSet \X NameSet : q[1] # q[2]}}
    \cup {<<<<p[1], 2>>, <<p[2], 1>>>> :
            p \in {q \in NameSet \X NameSet : q[1] # q[2]}}

\* the member under which body holds the object d, "" if it holds it not
MemberOf(body, d) ==
    IF \E i \in 1..Len(body) : body[i][2] = d
    THEN body[CHOOSE i \in 1..Len(body) : body[i][2] = d][1]
    ELSE ""

\* d = Var(type_), IVar(type_), FVar(type_) or Def(type_)
NewDeclaration(cls, type_) ==
    /\ pc \in {"idle", "declared", "bound", "read"}
    /\ Len(decls) < MaxDeclarations
    /\ pc' = "declared"
    /\ decls' = Append(decls, Declaration(cls, type_))
    /\ UNCHANGED <<parser, text, x, y, out, result, hx, hy, read>>
    /\ UNCHANGED <<globvars, explvars, trimvars>>

\* class <name>(Module): <member> = <declaration object>; ...
\* The setter of line 1509 acts on the objects; the module holds them as
\* the keys of its sections
ClassBody(body) ==
    /\ pc \in {"declared", "bound", "read"}
    /\ \A i \in 1..Len(body) : body[i][2] <= Len(decls)
    /\ pc' = "bound"
    /\ x' = ModuleMetaClass(<<Names[1]>>,
                            [i \in 1..Len(body) |->
                                <<body[i][1], decls[body[i][2]]>>])
    /\ y' = Returns(PyList(body))
    /\ decls' = [d \in 1..Len(decls) |->
                    IF MemberOf(body, d) # ""
                    THEN [decls[d] EXCEPT !.name = MemberOf(body, d)]
                    ELSE decls[d]]
    /\ UNCHANGED <<parser, text, out, result, hx, hy, read>>
    /\ UNCHANGED <<globvars, explvars, trimvars>>

\* x = getattr(d, attribute)
ReadAttribute(d, attribute) ==
    /\ pc \in {"declared", "bound", "read"}
    /\ d <= Len(decls)
    /\ pc' = "read"
    /\ x' = getattr(decls[d], attribute)
    /\ read' = [obj |-> d, attr |-> attribute]
    /\ UNCHANGED <<parser, text, y, out, result, hx, hy, decls>>
    /\ UNCHANGED <<globvars, explvars, trimvars>>

\* the effect of a call of pynusmv.glob: e is the exception it raises
\* ("none" if none) and stages are the stages it performs when it raises
\* none
Called(name, e, stages) ==
    /\ session
    /\ call' = [name |-> name, exc |-> e, seq |-> 1 - call.seq]
    /\ cmps' = [stage \in Stages |->
                   cmps[stage] \/ (e = "none" /\ stage \in stages)]
    /\ performed' =
          [stage \in Stages |->
              IF e = "none" /\ stage \in stages /\ performed[stage] < MaxPerformed
              THEN performed[stage] + 1
              ELSE performed[stage]]
    /\ UNCHANGED <<session, corevars, declvars, explvars, trimvars>>

\* init_nusmv()
InitNusmv ==
    /\ ~session
    /\ session' = TRUE
    /\ model' = "none"
    /\ cmps' = NoStage
    /\ call' = [name |-> "init_nusmv", exc |-> "none", seq |-> 1 - call.seq]
    /\ performed' = [stage \in Stages |-> 0]
    /\ UNCHANGED <<corevars, declvars, explvars, trimvars>>

\* deinit_nusmv()
DeinitNusmv ==
    /\ session
    /\ session' = FALSE
    /\ model' = "none"
    /\ cmps' = NoStage
    /\ call' = [name |-> "deinit_nusmv", exc |-> "none", seq |-> 1 - call.seq]
    /\ performed' = [stage \in Stages |-> 0]
    /\ UNCHANGED <<corevars, declvars, explvars, trimvars>>

\* glob.load(m), glob.load_from_file(m)
Load(m) ==
    /\ Called("load", load(cmps, m), {"read_model"})
    /\ model' = IF load(cmps, m) = "none" THEN m ELSE model

\* glob.flatten_hierarchy()
FlattenHierarchy ==
    /\ Called("flatten_hierarchy", flatten_hierarchy(cmps, model),
              {"flatten_hrc"})
    /\ UNCHANGED model

\* glob.encode_variables()
EncodeVariables ==
    /\ Called("encode_variables", encode_variables(cmps), {"encode_variables"})
    /\ UNCHANGED model

\* glob.bdd_encoding(): the variables are encoded if they are not yet
BddEncoding ==
    /\ Called("bdd_encoding", need_flat_hierarchy(cmps),
              {stage \in {"encode_variables"} : ~cmps[stage]})
    /\ UNCHANGED model

\* glob.prop_database() and glob.flat_hierarchy()
Query(name) ==
    /\ Called(name, need_flat_hierarchy(cmps), {})
    /\ UNCHANGED model

\* glob.build_flat_model()
BuildFlatModel ==
    /\ Called("build_flat_model", build_flat_model(cmps), {"build_flat_model"})
    /\ UNCHANGED model

\* glob.build_model()
BuildModel ==
    /\ Called("build_model", build_model(cmps), {"build_model"})
    /\ UNCHANGED model

\* glob.compute_model()
ComputeModel ==
    /\ Called("compute_model", compute_model(cmps, model),
              {stage \in Stages : ~cmps[stage]})
    /\ UNCHANGED model

\* explanation = explain_eu(fsm, state, p, q)
ExplainEu(fsm, state, p, q) ==
    /\ pc = "idle"
    /\ pc' = "explained"
    /\ query' = [op |-> "eu", fsm |-> fsm, state |-> state, p |-> p, q |-> q]
    /\ explanation' \in explain_eu(fsm, state, p, q)
    /\ UNCHANGED <<parser, text, x, y, out, result, hx, hy>>
    /\ UNCHANGED <<declvars, globvars, trimvars>>

\* explain_eg(fsm, state, p) up to its loop: path = [state]
ExplainEg(fsm, state, p) ==
    /\ pc = "idle"
    /\ pc' = "explaining"
    /\ query' = [op |-> "eg", fsm |-> fsm, state |-> state, p |-> p, q |-> {}]
    /\ explanation' = [exc |-> "unset", val |-> <<state>>]
    /\ UNCHANGED <<parser, text, x, y, out, result, hx, hy>>
    /\ UNCHANGED <<declvars, globvars, trimvars>>

\* one turn of the while loop of explain_eg:
\* path.append(fsm.pick_one_state(fsm.post(state) & allstates))
MaxPath == 3
ExplainEgWhile ==
    /\ pc = "explaining"
    /\ CannotReachItself(query.fsm, eg(query.fsm, query.p), explanation.val)
    /\ Len(explanation.val) < MaxPath
    /\ IF post(query.fsm, {query.state}) \cap eg(query.fsm, query.p) = {}
       THEN /\ pc' = "explained"
            /\ explanation' = PickingError
       ELSE /\ pc' = "explaining"
            /\ \E sp \in post(query.fsm, {query.state})
                            \cap eg(query.fsm, query.p) :
                  explanation' =
                      [explanation EXCEPT !.val = Append(@, sp)]
    /\ UNCHANGED <<parser, text, x, y, out, result, hx, hy, query>>
    /\ UNCHANGED <<declvars, globvars, trimvars>>

\* explain_eg after its loop, to its return
ExplainEgReturn ==
    /\ pc = "explaining"
    /\ ~CannotReachItself(query.fsm, eg(query.fsm, query.p), explanation.val)
    /\ pc' = "explained"
    /\ explanation' \in EgAfterLoop(query.fsm, eg(query.fsm, query.p),
                                    explanation.val)
    /\ UNCHANGED <<parser, text, x, y, out, result, hx, hy, query>>
    /\ UNCHANGED <<declvars, globvars, trimvars>>

\* the client that asks for the witnesses of E[p U q] and of EG p
NextExplain ==
    \/ \E fsm \in Fsms, state \in FsmStates, p \in SUBSET FsmStates,
          q \in SUBSET FsmStates : ExplainEu(fsm, state, p, q)
    \/ \E fsm \in Fsms, state \in FsmStates, p \in SUBSET FsmStates :
          ExplainEg(fsm, state, p)
    \/ ExplainEgWhile
    \/ ExplainEgReturn

\* out = cls._trim(string, ind)
Trim(string, ind) ==
    /\ pc = "idle"
    /\ pc' = "trimmed"
    /\ text' = string
    /\ indentation' = ind
    /\ out' = _trim(string, ind)
    /\ UNCHANGED <<parser, x, y, result, hx, hy, again>>
    /\ UNCHANGED <<declvars, globvars, explvars>>

\* again = cls._trim(out, "")
TrimAgain ==
    /\ pc = "trimmed"
    /\ pc' = "trimmed again"
    /\ again' = _trim(out, <<>>)
    /\ UNCHANGED <<parser, text, x, y, out, result, hx, hy, indentation>>
    /\ UNCHANGED <<declvars, globvars, explvars>>

\* the client that reindents a text
NextTrim ==
    \/ \E string \in TrimTexts, ind \in Indentations : Trim(string, ind)
    \/ TrimAgain

NextGlob ==
    \/ InitNusmv
    \/ DeinitNusmv
    \/ \E m \in Models : Load(m)
    \/ FlattenHierarchy
    \/ EncodeVariables
    \/ BddEncoding
    \/ \E name \in {"prop_database", "flat_hierarchy"} : Query(name)
    \/ BuildFlatModel
    \/ BuildModel
    \/ ComputeModel

Next ==
    \/ \E input \in ParseInputs : ParseAllString(input[1], input[2])
    \/ ClearSource
    \/ Render
    \/ Reparse
    \/ \E pair \in NodePairs : Construct(pair)
    \/ Equals
    \/ HashNodes
    \/ \E namespace \in Namespaces : NewModule(namespace)
    \/ \E cls \in DeclarationClasses, type_ \in {TBoolean} :
          NewDeclaration(cls, type_)
    \/ \E body \in ClassBodies : ClassBody(body)
    \/ \E d \in 1..MaxDeclarations, attribute \in Attributes :
          ReadAttribute(d, attribute)
    \/ NextGlob
    \/ NextExplain
    \/ NextTrim

Spec == Init /\ [][Next]_vars

\* the client that parses a text, renders the result and parses it again
NextParse ==
    \/ \E input \in ParseInputs : ParseAllString(input[1], input[2])
    \/ ClearSource
    \/ Render
    \/ Reparse
    \/ Equals

SpecParse == Init /\ [][NextParse]_vars

\* the client that constructs two nodes, compares, hashes and renders them
NextNodes ==
    \/ \E pair \in NodePairs : Construct(pair)
    \/ Equals
    \/ HashNodes
    \/ Render

SpecNodes == Init /\ [][NextNodes]_vars

\* the client that gets a module from a text or from a class body
ModuleInputs ==
    ({"_module_element"} \X (SectionTextSet \cup UnterminatedSectionTexts))
    \cup ({"module"} \X ModuleTexts)

NextModule ==
    \/ \E input \in ModuleInputs : ParseAllString(input[1], input[2])
    \/ \E namespace \in Namespaces : NewModule(namespace)

SpecModule == Init /\ [][NextModule]_vars

\* the client that makes declarations, binds them in class bodies and reads
\* their attributes
NextDeclarations ==
    \/ \E cls \in DeclarationClasses, type_ \in {TBoolean} :
          NewDeclaration(cls, type_)
    \/ \E body \in ClassBodies : ClassBody(body)
    \/ \E d \in 1..MaxDeclarations, attribute \in Attributes :
          ReadAttribute(d, attribute)

SpecDeclarations == Init /\ [][NextDeclarations]_vars

\* the client that loads a model between init_nusmv and deinit_nusmv
SpecGlob == Init /\ [][NextGlob]_vars

SpecExplain == Init /\ [][NextExplain]_vars

SpecTrim == Init /\ [][NextTrim]_vars

(***************************************************************************)
(* Properties.                                                             *)
(***************************************************************************)
\* the node that the grammar builds for a bare name
NameNode(n) == ComplexIdentifier(<<Identifier(n)>>)

WithoutSource(n) == [n EXCEPT !.source = NoSource]

ExpressionParsers == {"simple_expression", "next_expression"}

\* x and y are two constructed nodes of one binary class, the operands of y
\* being those of x in the other order
SwappedPair ==
    /\ parser = ""
    /\ x.val.type \in BinaryClasses
    /\ y.val.type = x.val.type
    /\ y.val.left = x.val.right
    /\ y.val.right = x.val.left

\* C1: round trip.  An expression node produced by the grammar, rendered
\* without any verbatim source and parsed again, gives a node: the second
\* parse does not raise, and the new node equals the first one.
C1_RoundTrip ==
    /\ (pc = "reparsed" /\ parser \in ExpressionParsers /\ IsExpression(x.val))
          => y.exc = "none"
    /\ (pc = "compared" /\ parser \in ExpressionParsers /\ IsExpression(x.val))
          => result = "T"

\* the classes that C2 names
C2_CommutativeClasses ==
    {"Mult", "Add", "Union", "Eq", "Neq", "And", "Or", "Xor", "Xnor"}

\* C2: commutative equality.  For Op among Mult, Add, Union, Eq, Neq, And,
\* Or, Xor and Xnor and all operands a and b, Op(a, b).equals(Op(b, a)) is
\* true.
C2_CommutativeEquality ==
    (pc = "compared" /\ SwappedPair /\ x.val.type \in C2_CommutativeClasses)
        => result = "T"

\* what non-commutative equality asks of a compared pair of nodes of one
\* class among `classes`: swapped operands that differ make the nodes
\* differ, and equal nodes have equal left operands and equal right operands
OrderedEquality(classes) ==
    (/\ pc = "compared"
     /\ parser = ""
     /\ x.val.type \in classes
     /\ y.val.type = x.val.type)
        => /\ (SwappedPair /\ equals(x.val.left, x.val.right) = "F")
                 => result = "F"
           /\ result = "T"
                 => /\ equals(x.val.left, y.val.left) = "T"
                    /\ equals(x.val.right, y.val.right) = "T"

\* C3 as stated: non-commutative equality.  For Op among Concat, Div, Mod,
\* Sub, ShiftL, ShiftR, In, Lt, Gt, Le, Ge, Iff and Implies, and operands a
\* and b that are not equal, Op(a, b).equals(Op(b, a)) is false; two such
\* nodes are equal only when left equals left and right equals right.
C3_AsStated ==
    OrderedEquality({"Concat", "Div", "Mod", "Sub", "ShiftL", "ShiftR", "In",
                     "Lt", "Gt", "Le", "Ge", "Iff", "Implies"})

\* C3 amended: the same for Concat, Div, Mod, Sub, ShiftL, ShiftR, In, Lt,
\* Gt, Le, Ge and Implies; Iff compares its operands in either order.
C3_OrderedEquality ==
    OrderedEquality({"Concat", "Div", "Mod", "Sub", "ShiftL", "ShiftR", "In",
                     "Lt", "Gt", "Le", "Ge", "Implies"})

\* Sub(a, b) was compared with Sub(b, a) and found different
C3_Witness ==
    /\ pc = "compared"
    /\ x.val = Binary("Sub", Identifier(Names[1]), Identifier(Names[2]))
    /\ y.val = Binary("Sub", Identifier(Names[2]), Identifier(Names[1]))
    /\ result = "F"

\* C4: hash consistency.  The hash of every node is defined, and two nodes
\* that are equal have the same hash.
C4_HashConsistency ==
    pc = "hashed"
        => /\ hx.exc = "none"
           /\ hy.exc = "none"
           /\ result = "T" => hx.val = hy.val

\* C5: verbatim source.  A node whose source is set renders as that source.
C5_VerbatimSource ==
    (pc = "rendered" /\ HasSource(x.val) /\ x.val.source # NoSource)
        => out = x.val.source

\* the text of an operand below `parent` as C6 states it
C6_Operand(parent, operand) ==
    IF /\ operand.type \in UnaryClasses \cup BinaryClasses \cup {"Ite"}
       /\ precedence(operand) > precedence(parent)
    THEN <<"(">> \o Str(operand) \o <<")">>
    ELSE Str(operand)

\* C6: parenthesization.  The rendering of an operator node without source
\* is its operands around its symbols, an operand being in parentheses
\* exactly when it is an operator node of strictly greater precedence rank.
C6_Parenthesization ==
    (pc = "rendered" /\ HasSource(x.val) /\ x.val.source = NoSource)
        => /\ x.val.type \in BinaryClasses
                 => out = C6_Operand(x.val, x.val.left)
                          \o <<OpToken(x.val.type)>>
                          \o C6_Operand(x.val, x.val.right)
           /\ x.val.type = "Not" => out = <<"!">> \o C6_Operand(x.val, x.val.value)
           /\ x.val.type = "Minus"
                 => out = <<"-">> \o C6_Operand(x.val, x.val.value)
           /\ x.val.type = "Ite"
                 => out = C6_Operand(x.val, x.val.condition) \o <<"?">>
                          \o C6_Operand(x.val, x.val.left) \o <<":">>
                          \o C6_Operand(x.val, x.val.right)

\* Add(Mult(a, b), c) was rendered without parentheses
C6_Witness ==
    /\ pc = "rendered"
    /\ x.val = Binary("Add",
                      Binary("Mult", NameNode(Names[1]), NameNode(Names[2])),
                      NameNode(Names[3]))
    /\ out = <<Names[1], "*", Names[2], "+", Names[3]>>

\* the body of a section given as text
C7_Body(t) == Parse("_module_element", t, 1).toks[1].body

\* the merge of two mappings as C7 states it: the keys of the first in
\* their order, each with the value of the second when the second has the
\* key, then the other keys of the second
C7_MergedMapping(first, second) ==
    LET Later(k) ==
            LET js == {j \in 1..Len(second) : Str(second[j][1]) = Str(k)} IN
            IF js = {} THEN <<>> ELSE <<second[CHOOSE j \in js : TRUE][2]>>
        kept == [i \in 1..Len(first) |->
                    IF Later(first[i][1]) = <<>> THEN first[i]
                    ELSE <<first[i][1], Later(first[i][1])[1]>>]
        new == SelectSeq(second,
                         LAMBDA p : \A i \in 1..Len(first) :
                                        Str(first[i][1]) # Str(p[1]))
    IN kept \o new

C7_Merged(kind, first, second) ==
    IF _sections(kind) = "mapping"
    THEN PyDict(C7_MergedMapping(first.items, second.items))
    ELSE PyList(first.items \o second.items)

\* C7: section merge.  A module text with two sections of one kind gives a
\* module with one section of that kind, which holds the merge of the two:
\* for a mapping the keys in encounter order and the later value for a key
\* given twice, for a listing the elements in encounter order.  A module
\* assembled from a namespace has no mapping section that holds one name
\* twice, and two declarations of one section are its keys in their order.
C7_SectionMerge ==
    /\ \A h \in Headers : \A i \in DOMAIN SectionTexts :
       \A j \in DOMAIN SectionTexts :
          (/\ pc = "parsed"
           /\ parser = "module"
           /\ text = h \o SectionTexts[i] \o SectionTexts[j]
           /\ SectionTexts[i][1] = SectionTexts[j][1])
              => /\ x.exc = "none"
                 /\ NsHas(x.val.namespace, SectionTexts[i][1])
                 /\ NsGet(x.val.namespace, SectionTexts[i][1])
                       = C7_Merged(SectionTexts[i][1], C7_Body(SectionTexts[i]),
                                   C7_Body(SectionTexts[j]))
    /\ (pc = "assembled" /\ x.exc = "none")
          => \A k \in 1..Len(x.val.namespace) :
                LET body == x.val.namespace[k][2] IN
                body.type = "dict"
                   => \A p \in 1..Len(body.items) : \A q \in 1..Len(body.items) :
                         p # q => Str(body.items[p][1]) # Str(body.items[q][1])
    /\ (/\ pc = "assembled"
        /\ Len(y.val.items) = 2
        /\ y.val.items[1][2].type \in DeclarationClasses
        /\ y.val.items[2][2].type = y.val.items[1][2].type)
          => /\ x.exc = "none"
             /\ Len(x.val.namespace) = 1
             /\ LET body == x.val.namespace[1][2] IN
                /\ Len(body.items) = 2
                /\ \A k \in 1..2 :
                      /\ Str(body.items[k][1]) = <<y.val.items[k][1]>>
                      /\ body.items[k][2] = y.val.items[k][2].dtype

\* what the production consumed of the text, -1 when it did not match
C8_Consumed ==
    LET res == Parse(parser, text, 1) IN IF res.ok THEN res.pos - 1 ELSE -1

C9_Lexemes == OperatorLexemes \ {"::", "->"}

\* the class of an operator lexeme and the rank recorded on that class
C9_Class(op) == CHOOSE cls \in BinaryClasses : OpToken(cls) = op
C9_Rank(op) == precedence(Binary(C9_Class(op), NameNode(""), NameNode("")))

\* C9: precedence and left folding.  `a op1 b op2 c` over the operators of
\* the left-associative levels parses to Op2(Op1(a, b), c) when op1 binds
\* as tightly as op2 or tighter (its rank is not greater), and to
\* Op1(a, Op2(b, c)) when op2 binds tighter; `a op b` parses to Op(a, b).
C9_PrecedenceAndLeftFolding ==
    (/\ pc = "parsed"
     /\ parser = "simple_expression"
     /\ Len(text) \in {3, 5}
     /\ \A k \in 1..Len(text) :
           IF k % 2 = 1 THEN text[k] \in NameSet ELSE text[k] \in C9_Lexemes)
        => /\ x.exc = "none"
           /\ WithoutSource(x.val)
                 = IF Len(text) = 3
                   THEN Binary(C9_Class(text[2]), NameNode(text[1]),
                               NameNode(text[3]))
                   ELSE IF C9_Rank(text[2]) <= C9_Rank(text[4])
                   THEN Binary(C9_Class(text[4]),
                               Binary(C9_Class(text[2]), NameNode(text[1]),
                                      NameNode(text[3])),
                               NameNode(text[5]))
                   ELSE Binary(C9_Class(text[2]), NameNode(text[1]),
                               Binary(C9_Class(text[4]), NameNode(text[3]),
                                      NameNode(text[5])))

\* `a | b & c` was parsed to Or(a, And(b, c))
C9_Witness ==
    /\ pc = "parsed"
    /\ text = <<Names[1], "|", Names[2], "&", Names[3]>>
    /\ x.exc = "none"
    /\ WithoutSource(x.val)
          = Binary("Or", NameNode(Names[1]),
                   Binary("And", NameNode(Names[2]), NameNode(Names[3])))

\* C10: implication.  `a -> b` parses to Implies(left = a, right = b) and
\* `a -> b -> c` to Implies(a, Implies(b, c)).
C10_Implication ==
    /\ (/\ pc = "parsed"
        /\ parser = "simple_expression"
        /\ Len(text) = 3
        /\ text[1] \in NameSet /\ text[2] = "->" /\ text[3] \in NameSet)
          => /\ x.exc = "none"
             /\ WithoutSource(x.val)
                   = Binary("Implies", NameNode(text[1]), NameNode(text[3]))
    /\ (/\ pc = "parsed"
        /\ parser = "simple_expression"
        /\ text = <<Names[1], "->", Names[2], "->", Names[3]>>)
          => /\ x.exc = "none"
             /\ WithoutSource(x.val)
                   = Binary("Implies", NameNode(Names[1]),
                            Binary("Implies", NameNode(Names[2]),
                                   NameNode(Names[3])))

\* C11: concatenation.  `a :: b` parses to Concat(a, b) and `a :: b :: c` to
\* Concat(Concat(a, b), c): the operator folds to the left and no operand of
\* the chain is dropped.
C11_Concatenation ==
    /\ (/\ pc = "parsed"
        /\ parser = "simple_expression"
        /\ Len(text) = 3
        /\ text[1] \in NameSet /\ text[2] = "::" /\ text[3] \in NameSet)
          => /\ x.exc = "none"
             /\ WithoutSource(x.val)
                   = Binary("Concat", NameNode(text[1]), NameNode(text[3]))
    /\ (/\ pc = "parsed"
        /\ parser = "simple_expression"
        /\ text = <<Names[1], "::", Names[2], "::", Names[3]>>)
          => /\ x.exc = "none"
             /\ WithoutSource(x.val)
                   = Binary("Concat",
                            Binary("Concat", NameNode(Names[1]),
                                   NameNode(Names[2])),
                            NameNode(Names[3]))

\* C12: case expressions.  `case c1: r1; ...; cn: rn; esac` with n >= 1
\* parses to a Case node with exactly n entries, in the order of the source;
\* two entries whose conditions are structurally equal are both kept, the
\* later after the earlier.
C12_IsCaseText(t) ==
    /\ Len(t) >= 6 /\ (Len(t) - 2) % 4 = 0
    /\ t[1] = "case" /\ t[Len(t)] = "esac"
    /\ \A k \in 1..((Len(t) - 2) \div 4) :
          /\ t[4 * k - 2] \in CaseConditions /\ t[4 * k - 1] = ":"
          /\ t[4 * k] \in CaseResults /\ t[4 * k + 1] = ";"
C12_CaseEntries ==
    (pc = "parsed" /\ parser = "simple_expression" /\ C12_IsCaseText(text))
        => /\ x.exc = "none"
           /\ x.val.type = "Case"
           /\ Len(x.val.values) = (Len(text) - 2) \div 4
           /\ \A k \in 1..Len(x.val.values) :
                 /\ Str(x.val.values[k][1]) = <<text[4 * k - 2]>>
                 /\ Str(x.val.values[k][2]) = <<text[4 * k]>>

\* C13: module headers.  `MODULE name`, `MODULE name ()` and
\* `MODULE name (a1, ..., ak)` are all accepted; the module has that name,
\* the arguments [] in the first two forms and [a1, ..., ak] in the third,
\* and its sections are exactly those written: none is taken for the
\* argument list and none is lost.
C13_WellFormed(t) ==
    \E h \in Headers, s1 \in SectionTextSet \cup {<<>>},
       s2 \in SectionTextSet \cup {<<>>} : t = h \o s1 \o s2
C13_Args(t) ==
    IF Len(t) >= 5 /\ t[3] = "(" /\ t[4] # ")" THEN <<Identifier(t[4])>>
    ELSE <<>>
C13_Written(t) == {t[k] : k \in {j \in 1..Len(t) : t[j] \in SectionNames}}
C13_ModuleHeader ==
    (pc = "parsed" /\ parser = "module" /\ C13_WellFormed(text))
        => /\ x.exc = "none"
           /\ NsGet(x.val.namespace, "NAME") = Identifier(text[2])
           /\ NsGet(x.val.namespace, "ARGS") = PyList(C13_Args(text))
           /\ {m \in SectionNames : NsHas(x.val.namespace, m)}
                 = C13_Written(text)

\* C14: unknown section.  When the class body given to the assembler holds a
\* member whose section kind is not one of the twelve of _sections, the
\* construction fails with the `Unknown section` error and no module value
\* is produced.
C14_UnknownSection ==
    (/\ pc = "assembled"
     /\ \E i \in 1..Len(y.val.items) : y.val.items[i][1] \in UnknownSections)
        => /\ x.exc = "Exception"
           /\ x.val = NoNode

\* C15: unbound declaration name.  Reading the name of a Declaration that
\* has not been bound into a module namespace raises an error, and that
\* error is of another kind than the error of an absent attribute; after
\* the binding the name read is the key under which the object was bound.
C15_UnboundName ==
    (pc = "read" /\ read.attr = "name")
        => IF decls[read.obj].name = ""
           THEN x.exc \notin {"none", AttributeAbsent}
           ELSE /\ x.exc = "none"
                /\ x.val = PyStr(decls[read.obj].name)
                /\ (y.exc = "none" /\ MemberOf(y.val.items, read.obj) # "")
                      => x.val = PyStr(MemberOf(y.val.items, read.obj))

\* C16: declaration binding.  A Declaration met as a member of a class body
\* is inserted into the section of its kind under the member name, with its
\* type as value; its name is assigned at that step and never changes
\* afterwards, also not when the object is bound under a second member name
\* or in a second module.
C16_Inserted ==
    pc = "bound"
        => /\ x.exc = "none"
           /\ \A i \in 1..Len(y.val.items) :
                 \E k \in 1..Len(NsGet(x.val.namespace,
                                       decls[y.val.items[i][2]].section).items) :
                    /\ NsGet(x.val.namespace,
                             decls[y.val.items[i][2]].section).items[k][1].name
                          = y.val.items[i][1]
                    /\ NsGet(x.val.namespace,
                             decls[y.val.items[i][2]].section).items[k][2]
                          = decls[y.val.items[i][2]].dtype
C16_NameKept ==
    \A d \in 1..Len(decls) :
        decls[d].name # "" => decls'[d].name = decls[d].name
C16_DeclarationBinding == []C16_Inserted /\ [][C16_NameKept]_vars

\* C17: idempotent re-render.  For every expression node n that the grammar
\* produced and whose source was cleared, parsing render(n) succeeds and the
\* rendering of the node parsed from it is render(n) again; `extend` and
\* `resize`, `count`, `case` and the unary operators are among the nodes.
C17_IdempotentRender ==
    (pc = "reparsed" /\ parser \in ExpressionParsers)
        => /\ y.exc = "none"
           /\ Str(y.val) = out

\* C18: word constants.  A literal 0[u|s]?[bBoOdDhH][width]_digits parses to
\* a Word node that records its base, its width, its sign and the text of
\* its value as separate parts: for 0sd8_3 the base d, the width 8, the
\* sign s and the value text 3.
C18_Parts(literal) ==
    CASE literal = "0sd8_3" ->
            [base |-> "d", width |-> "8", sign |-> "s", value |-> "3"]
      [] literal = "0b_1" ->
            [base |-> "b", width |-> "", sign |-> "", value |-> "1"]
      [] literal = "0uh4_F" ->
            [base |-> "h", width |-> "4", sign |-> "u", value |-> "F"]
C18_WordConstant ==
    (/\ pc = "parsed" /\ parser = "simple_expression"
     /\ Len(text) = 1 /\ text[1] \in WordConstants)
        => /\ x.exc = "none"
           /\ x.val.type = "Word"
           /\ {"base", "width", "sign", "value"} \subseteq DOMAIN x.val
           /\ \A part \in {"base", "width", "sign", "value"} :
                 x.val[part] = C18_Parts(text[1])[part]

\* C19: order of the stages.  The stages are taken in the order load,
\* flatten_hierarchy, (encode_variables, build_flat_model), build_model.
\* flatten_hierarchy and compute_model raise NuSMVNoReadModelError when no
\* model is read; encode_variables, bdd_encoding, prop_database,
\* flat_hierarchy and build_flat_model raise NuSMVNeedFlatHierarchyError when
\* the hierarchy is not flattened; build_model raises NuSMVNeedFlatModelError
\* while the flat model is not built and NuSMVNeedVariablesEncodedError when
\* it is built and the variables are not encoded.  A call that raises leaves
\* the stages as they were, and the next stage in order succeeds.
C19_Order ==
    /\ cmps["flatten_hrc"] => cmps["read_model"]
    /\ cmps["encode_variables"] => cmps["flatten_hrc"]
    /\ cmps["build_flat_model"] => cmps["flatten_hrc"]
    /\ cmps["build_model"] => cmps["build_flat_model"] /\ cmps["encode_variables"]
C19_Raises ==
    /\ (call'.name \in {"flatten_hierarchy", "compute_model"}
         /\ ~cmps["read_model"])
          => call'.exc = "NuSMVNoReadModelError"
    /\ (call'.name \in {"encode_variables", "bdd_encoding", "prop_database",
                         "flat_hierarchy", "build_flat_model"}
         /\ ~cmps["flatten_hrc"])
          => call'.exc = "NuSMVNeedFlatHierarchyError"
    /\ (call'.name = "build_model" /\ ~cmps["build_flat_model"])
          => call'.exc = "NuSMVNeedFlatModelError"
    /\ (call'.name = "build_model" /\ cmps["build_flat_model"]
         /\ ~cmps["encode_variables"])
          => call'.exc = "NuSMVNeedVariablesEncodedError"
    /\ call'.exc # "none" => cmps' = cmps /\ model' = model
C19_Succeeds ==
    /\ (call'.name = "flatten_hierarchy" /\ cmps["read_model"]
         /\ ~cmps["flatten_hrc"] /\ model = "counters")
          => call'.exc = "none" /\ cmps'["flatten_hrc"]
    /\ (call'.name = "encode_variables" /\ cmps["flatten_hrc"]
         /\ ~cmps["encode_variables"])
          => call'.exc = "none" /\ cmps'["encode_variables"]
    /\ (call'.name = "build_flat_model" /\ cmps["flatten_hrc"]
         /\ ~cmps["build_flat_model"])
          => call'.exc = "none" /\ cmps'["build_flat_model"]
    /\ (call'.name = "build_model" /\ cmps["build_flat_model"]
         /\ cmps["encode_variables"] /\ ~cmps["build_model"])
          => call'.exc = "none" /\ cmps'["build_model"]
C20_Once == \A stage \in Stages : performed[stage] <= 1
C20_Second ==
    /\ (call'.name = "load" /\ cmps["read_model"])
          => call'.exc = "NuSMVModelAlreadyReadError"
    /\ (call'.name = "flatten_hierarchy" /\ cmps["flatten_hrc"])
          => call'.exc = "NuSMVModelAlreadyFlattenedError"
    /\ (call'.name = "encode_variables" /\ cmps["encode_variables"])
          => call'.exc = "NuSMVModelAlreadyEncodedError"
    /\ (call'.name = "build_flat_model" /\ cmps["build_flat_model"])
          => call'.exc = "NuSMVFlatModelAlreadyBuiltError"
    /\ (call'.name = "build_model" /\ cmps["build_model"])
          => call'.exc = "NuSMVModelAlreadyBuiltError"
C20_StagesOnce == []C20_Once /\ [][session /\ session' => C20_Second]_vars

\* a second load was refused after every stage was performed once
C20_Witness ==
    /\ call.name = "load"
    /\ call.exc = "NuSMVModelAlreadyReadError"
    /\ \A stage \in Stages : performed[stage] = 1

\* C21: a state s is given that satisfies E[p U q], that is, some path of
\* the FSM from s goes through states of p to a state of q.  explain_eu
\* then returns, and what it returns is a tuple s_0, i_1, s_1, ..., i_n,
\* s_n that starts at s, ends in q, has its earlier states in p, and
\* whose every step s_(j-1), i_j, s_j is a transition of the FSM; it is
\* the tuple (s,) when s is in q.
C21_IsPath(fsm, states) ==
    \A j \in 1..(Len(states) - 1) : states[j + 1] \in post(fsm, {states[j]})
C21_Satisfies(fsm, s, p, q) ==
    \E n \in 1..Cardinality(FsmStates) :
        \E states \in [1..n -> FsmStates] :
            /\ states[1] = s
            /\ states[n] \in q
            /\ \A j \in 1..(n - 1) : states[j] \in p
            /\ C21_IsPath(fsm, states)
C21_Explains(fsm, s, p, q, path) ==
    /\ Len(path) % 2 = 1
    /\ path[1] = s
    /\ path[Len(path)] \in q
    /\ \A j \in 1..Len(path) :
          /\ j % 2 = 1 => path[j] \in FsmStates
          /\ j % 2 = 1 /\ j < Len(path) => path[j] \in p
          /\ j % 2 = 0 => <<path[j - 1], path[j], path[j + 1]>> \in fsm
    /\ s \in q => path = <<s>>
C21_ExplainEu ==
    (pc = "explained" /\ query.op = "eu"
     /\ C21_Satisfies(query.fsm, query.state, query.p, query.q))
        => /\ explanation.exc = "none"
           /\ C21_Explains(query.fsm, query.state, query.p, query.q,
                           explanation.val)

\* C21 happens: a witness of three states, and the witness of a state of q
C21_Witness ==
    /\ pc = "explained"
    /\ query.op = "eu"
    /\ query.state \notin query.q
    /\ explanation.exc = "none"
    /\ Len(explanation.val) = 5

\* C22: a state s is given that satisfies EG p.  explain_eg then returns
\* (path, loop): path is a tuple s_0, i_1, s_1, ..., i_n, s_n of states
\* and inputs in turn that starts at s, whose states are all in p and whose
\* every step s_(j-1), i_j, s_j is a transition of the FSM; loop is
\* (i_l, s_l) with s_l a state of path and s_n, i_l, s_l a transition.
C22_Path(fsm, s, p, path) ==
    /\ Len(path) % 2 = 1
    /\ path[1] = s
    /\ \A j \in 1..Len(path) :
          /\ j % 2 = 1 => path[j] \in p
          /\ j % 2 = 0 => /\ path[j] \in FsmInputs
                          /\ <<path[j - 1], path[j], path[j + 1]>> \in fsm
C22_Loop(fsm, path, loop) ==
    /\ \E j \in 1..Len(path) : j % 2 = 1 /\ path[j] = loop[2]
    /\ <<path[Len(path)], loop[1], loop[2]>> \in fsm
C22_ExplainEg ==
    (pc = "explained" /\ query.op = "eg"
     /\ query.state \in eg(query.fsm, query.p))
        => /\ explanation.exc = "none"
           /\ C22_Path(query.fsm, query.state, query.p, explanation.val[1])
           /\ C22_Loop(query.fsm, explanation.val[1], explanation.val[2])

\* C23: a class body gives a mapping section as a mapping with one key, the
\* key and its value both texts, and the text of the whole section made of
\* that key and that value (key, separator, value, ";") is accepted.  Then
\* the mapping is accepted too, and it yields the one entry that the text
\* of the whole section yields: the same key and the same value.
C23_IsTextMapping(ns) ==
    /\ Len(ns) = 1
    /\ ns[1][1] \in {"VAR", "IVAR", "FROZENVAR", "DEFINE", "ASSIGN"}
    /\ ns[1][2].type = "dict"
    /\ Len(ns[1][2].items) = 1
    /\ ns[1][2].items[1][1].type = "text"
    /\ ns[1][2].items[1][2].type = "text"
C23_Whole(section, item) ==
    _section_internal(section,
                      PyText(item[1].value \o <<Separator(section)>>
                             \o item[2].value \o <<";">>))
C23_SameEntries(a, b) ==
    /\ Len(a) = Len(b)
    /\ \A i \in 1..Len(a) :
          /\ Canonical(a[i][1]) = Canonical(b[i][1])
          /\ Canonical(a[i][2]) = Canonical(b[i][2])
C23_SectionParsing ==
    (pc = "assembled" /\ C23_IsTextMapping(y.val.items)
     /\ C23_Whole(y.val.items[1][1], y.val.items[1][2].items[1]).exc = "none")
        => /\ x.exc = "none"
           /\ C23_SameEntries(
                  x.val.namespace[1][2].items,
                  C23_Whole(y.val.items[1][1],
                            y.val.items[1][2].items[1]).val.items)

\* C24, as stated: _trim(text, indentation) is the lines of the text, tabs
\* expanded and the blank lines at both ends removed, every one of them
\* with its indentation reduced by the smallest indentation among the
\* non-empty lines after the first and with the indentation given put
\* before it; and _trim of that result with an empty indentation is that
\* result.
C24_Lines(string) == splitlines(expandtabs(string))
C24_Blank(line) == lstrip(line) = <<>>
C24_Indent(line) == Len(line) - Len(lstrip(line))
C24_NotBlank(line) == ~C24_Blank(line)
C24_Continuation(lines) ==
    IF lines = <<>> THEN <<>> ELSE SelectSeq(Tail(lines), C24_NotBlank)
C24_Smallest(lines) ==
    IF C24_Continuation(lines) = <<>> THEN 0
    ELSE CHOOSE m \in 0..(MaxText * TabSize) :
             /\ \E j \in 1..Len(C24_Continuation(lines)) :
                   C24_Indent(C24_Continuation(lines)[j]) = m
             /\ \A j \in 1..Len(C24_Continuation(lines)) :
                   C24_Indent(C24_Continuation(lines)[j]) >= m
C24_Reduced(line, m) ==
    IF C24_Blank(line) THEN <<>>
    ELSE IF C24_Indent(line) <= m THEN rstrip(lstrip(line))
    ELSE rstrip(SubSeq(line, m + 1, Len(line)))
C24_Stated(lines, ind) ==
    JoinLines(ind,
              PopLeading(PopTrailing(
                  [j \in 1..Len(lines) |->
                      C24_Reduced(lines[j], C24_Smallest(lines))])))
C24_Body(string, ind) ==
    [j \in 1..Len(splitlines(string)) |->
        SubSeq(splitlines(string)[j], Len(ind) + 1,
               Len(splitlines(string)[j]))]
C24_Strip(lines) == [j \in 1..Len(lines) |-> strip(lines[j])]
C24_Indents(lines, m) == [j \in 1..Len(lines) |-> C24_Indent(lines[j]) - m]
C24_Shaped(string, ind) ==
    /\ \A k \in 1..Len(string) : string[k] # "\t"
    /\ \A j \in 1..Len(splitlines(string)) :
          /\ SubSeq(splitlines(string)[j], 1, Len(ind)) = ind
          /\ rstrip(C24_Body(string, ind)[j]) = C24_Body(string, ind)[j]
    /\ string # <<>> =>
          /\ C24_Body(string, ind)[1] # <<>>
          /\ C24_Body(string, ind)[Len(C24_Body(string, ind))] # <<>>
C24_Kept(lines, body) ==
    /\ C24_Strip(SelectSeq(body, C24_NotBlank))
          = C24_Strip(SelectSeq(lines, C24_NotBlank))
    /\ C24_Indents(SelectSeq(body, C24_NotBlank), 0)
          = (IF lines # <<>> /\ C24_NotBlank(lines[1]) THEN <<0>> ELSE <<>>)
            \o C24_Indents(C24_Continuation(lines), C24_Smallest(lines))
C25_Constraints(t) == Cardinality({i \in 1..Len(t) : t[i] = "COMPASSION"})
C25_Reparsed(t) == Parse("ZeroOrMore(_module_element)", t, 1)
C25_Pairs(body, k) ==
    /\ Len(body.items) = k
    /\ \A j \in 1..k :
          body.items[j].type = "list" /\ Len(body.items[j].items) = 2
C25_Rendered(t, k) ==
    /\ C25_Constraints(t) = k
    /\ C25_Reparsed(t).ok
    /\ C25_Reparsed(t).pos = Len(t) + 1
    /\ Len(C25_Reparsed(t).toks) = k
    /\ \A j \in 1..k : Len(C25_Reparsed(t).toks[j].body.items) = 2
C25_CompassionPairs ==
    (pc = "parsed" /\ parser = "module" /\ x.exc = "none"
     /\ C25_Constraints(text) > 0)
        => /\ C25_Pairs(NsGet(x.val.namespace, "COMPASSION"),
                        C25_Constraints(text))
           /\ C25_Rendered(
                  _section_str("COMPASSION",
                               NsGet(x.val.namespace, "COMPASSION").items),
                  C25_Constraints(text))

(***************************************************************************)
(* The two alternatives of _complex_identifier.                            *)
(***************************************************************************)
\* the parse of the word selfish by _complex_identifier is the one of its
\* identifier alternative: the whole word
C26_Whole ==
    (pc = "parsed" /\ parser = "_complex_identifier" /\ text = <<"self", Ish>>)
        => /\ x.exc = "none"
           /\ x.val.body = <<Identifier("selfish")>>

\* the parse of self alone is the one of the keyword alternative
C26_Keyword ==
    (pc = "parsed" /\ parser = "_complex_identifier" /\ text = <<"self">>)
        => /\ x.exc = "none"
           /\ x.val.body = <<PyStr("self")>>

\* the two alternatives never both match the same prefix of the text
C26_Exclusive ==
    (pc = "parsed" /\ parser = "_complex_identifier")
        => LET first == Then(Lit(text, 1, "self"), "_cip", text)
               second == Then(identifier(text, 1), "_cip", text)
           IN  ~(first.ok /\ second.ok /\ first.pos = second.pos)

\* C26: in _complex_identifier the alternative of self and the alternative
\* of an identifier never both match the same prefix of a text; the word
\* selfish is parsed whole, by the identifier alternative, and self alone by
\* the keyword alternative.
C26_ExclusiveChoice == C26_Whole /\ C26_Keyword /\ C26_Exclusive


(***************************************************************************)
(* The functions count, extend and resize.                                 *)
(***************************************************************************)
\* the texts count(e1) and count(e1, e2) over names, and their arguments
C27_IsCount ==
    /\ parser = "simple_expression"
    /\ Len(text) \in {4, 6}
    /\ text[1] = "count"
    /\ \A k \in 3..(Len(text) - 1) :
          IF k % 2 = 1 THEN text[k] \in NameSet ELSE text[k] = ","
C27_Arguments == [k \in 1..((Len(text) - 2) \div 2) |-> NameNode(text[2 * k + 1])]

\* v is a sequence (a node is a record with a type)
C27_IsSequence(v) == "type" \notin DOMAIN v

\* the value of the Count node is the sequence of all the arguments
C27_Value ==
    (pc = "parsed" /\ C27_IsCount)
        => /\ x.exc = "none"
           /\ x.val.type = "Count"
           /\ C27_IsSequence(x.val.value)
           /\ x.val.value = C27_Arguments

\* the rendering of the node without its source lists all the arguments
C27_Rendering ==
    (pc = "rendered" /\ C27_IsCount /\ x.val.source = NoSource)
        => out = <<"count", "(">> \o JoinStrSep(C27_Arguments, <<",">>)
                 \o <<")">>

\* equals on two parsed Count nodes returns a boolean
C27_Equals ==
    (pc = "compared" /\ C27_IsCount /\ y.val.type = "Count")
        => result \in {"T", "F"}

\* C27: parsing count(e1, ..., en), n >= 1, gives a Count node whose value is
\* the sequence of the n arguments in their order; Count.equals returns a
\* boolean on such nodes; the rendering of the node lists the n arguments.
C27_CountKeepsArguments == C27_Value /\ C27_Rendering /\ C27_Equals


\* the texts extend(v, n) and resize(v, n) over a name and an integer
C28_IsWordFunction ==
    /\ parser = "simple_expression"
    /\ Len(text) = 6
    /\ text[1] \in {"extend", "resize"}
    /\ text[3] \in NameSet
    /\ text[4] = ","
    /\ IsIntLexeme(text[5])

\* the node has the name of the function, the parse of v and the parse of n
C28_Node ==
    (pc = "parsed" /\ C28_IsWordFunction)
        => /\ x.exc = "none"
           /\ x.val.type = "WordFunction"
           /\ x.val.function = PyStr(text[1])
           /\ x.val.value = NameNode(text[3])
           /\ x.val.size = PyInt(StrToInt(text[5]))

\* the rendering of the node without its source is extend(v, n)
C28_Rendering ==
    (pc = "rendered" /\ C28_IsWordFunction /\ x.val.source = NoSource)
        => out = text

\* C28: parsing extend(v, n) or resize(v, n) gives a WordFunction node with
\* the name of the function, the parse of v as its value and the parse of n
\* as its size, never the separator; it renders as extend(v, n) or
\* resize(v, n).
C28_WordFunctionKeepsArguments == C28_Node /\ C28_Rendering


(***************************************************************************)
(* equals on the trees that the grammar produces.                          *)
(***************************************************************************)
\* equals on two trees that the grammar produced returns a boolean
C29_Returns ==
    (/\ pc = "compared"
     /\ parser \in ExpressionParsers
     /\ IsExpression(x.val)
     /\ IsExpression(y.val))
        => result \in {"T", "F"}

\* a tree that the grammar produced equals itself
C29_Reflexive ==
    (/\ pc \in {"parsed", "cleared"}
     /\ parser \in ExpressionParsers
     /\ x.exc = "none"
     /\ IsExpression(x.val))
        => equals(x.val, x.val) = "T"

\* C29: for two expression trees x and y that the grammar produced,
\* x.equals(y) returns true or false and never raises, also when the trees
\* hold integer literals as operands; and x.equals(x) is true.
C29_EqualsIsTotal == C29_Returns /\ C29_Reflexive


(***************************************************************************)
(* The names of the keys of a mapping section.                             *)
(***************************************************************************)
\* the mapping sections of the module x
C30_Mappings ==
    {i \in 1..Len(x.val.namespace) :
        /\ x.val.namespace[i][1] \in SectionNames
        /\ _sections(x.val.namespace[i][1]) = "mapping"
        /\ x.val.namespace[i][2].type = "dict"}

\* no mapping section of an assembled module holds two keys of one name
C30_Unique ==
    (pc = "assembled" /\ x.exc = "none" /\ x.val.type = "Module")
        => \A i \in C30_Mappings :
              LET items == x.val.namespace[i][2].items
              IN  \A j \in 1..Len(items), k \in 1..Len(items) :
                     Str(items[j][1]) = Str(items[k][1]) => j = k

\* the namespace binds a declaration under the name n and gives the section
\* of that declaration a key n, in either order
C30_SameName ==
    /\ y.exc = "none"
    /\ y.val.type = "list"
    /\ Len(y.val.items) = 2
    /\ \E d \in 1..2 :
          LET decl == y.val.items[d]
              sect == y.val.items[3 - d]
          IN  /\ decl[2].type \in DeclarationClasses
              /\ sect[1] = decl[2].section
              /\ sect[2].type = "dict"
              /\ Len(sect[2].items) = 1
              /\ sect[2].items[1][1] = PyText(<<decl[1]>>)

\* such a namespace gives one entry, whose value is the later contribution
C30_LaterWins ==
    (pc = "assembled" /\ x.exc = "none" /\ x.val.type = "Module"
     /\ C30_SameName)
        => /\ Len(x.val.namespace) = 1
           /\ Len(x.val.namespace[1][2].items) = 1
           /\ LET later == y.val.items[2][2]
                  value == x.val.namespace[1][2].items[1][2]
              IN  IF later.type \in DeclarationClasses
                  THEN value = later.dtype
                  ELSE Canonical(value)
                          = Canonical(ParsedIfStr("type_identifier",
                                                  later.items[1][2]).val)

\* C30: no mapping section (VAR, IVAR, FROZENVAR, DEFINE, ASSIGN) of a
\* module that the assembler produces holds two keys that render to the same
\* name; a Declaration bound under the member name n and a contribution to
\* its section with the key n, in either order, give one entry, whose value
\* is the later contribution.
C30_UniqueNames == C30_Unique /\ C30_LaterWins

====
